---- MODULE Spec2Model ----
(***************************************************************************)
(* Model of the SDL resolvers of drizzle-graphql-plus: the filter          *)
(* compiler (utils/filters), the order compiler and the selection and      *)
(* relation planner (utils/selection), the query resolvers                 *)
(* (queries/resolvers) and the mutation resolvers (mutations/resolvers),   *)
(* run against a small relational store.                                   *)
(***************************************************************************)
EXTENDS Integers, Sequences, FiniteSets, TLC

\* ------------------------------------------------------------------------
\* Bounds of the model
\* ------------------------------------------------------------------------
\* Column values and primary keys range over 1..MaxVal.
MaxVal == 2

\* ------------------------------------------------------------------------
\* JavaScript values.  Every value is a record of one shape, so that values
\* of different JavaScript types can be compared.
\* ------------------------------------------------------------------------
Null == [t |-> "null", n |-> 0, xs |-> <<>>]
Undefined == [t |-> "undefined", n |-> 0, xs |-> <<>>]
False == [t |-> "bool", n |-> 0, xs |-> <<>>]
True == [t |-> "bool", n |-> 1, xs |-> <<>>]
Wild == [t |-> "pattern", n |-> 0, xs |-> <<>>]
Num(k) == [t |-> "num", n |-> k, xs |-> <<>>]
Arr(s) == [t |-> "array", n |-> 0, xs |-> s]

Nums == {Num(k) : k \in 1..MaxVal}

\* ------------------------------------------------------------------------
\* The schema: TableInfo per table (types.ts) and the relation map.
\* A column is keyed by its property name; "name" is its storage name.
\* ------------------------------------------------------------------------
\* The tables whose rows the resolver runs store.
TableNames == {"user", "post"}

\* The tables of the schema: the planner also walks relations into comment.
SchemaTables == TableNames \cup {"comment"}

ColumnKeys(t) ==
    CASE t = "user" -> <<"id", "bio">>
      [] t = "post" -> <<"postId", "authorId">>
      [] OTHER -> <<"id", "postId", "userId">>

Columns(t) ==
    CASE t = "user" ->
            [id |-> [name |-> "id", primary |-> TRUE, notNull |-> TRUE],
             bio |-> [name |-> "bio", primary |-> FALSE, notNull |-> FALSE]]
      [] t = "post" ->
            [postId |-> [name |-> "post_id", primary |-> TRUE, notNull |-> TRUE],
             authorId |-> [name |-> "author_id", primary |-> FALSE, notNull |-> TRUE]]
      [] OTHER ->
            [id |-> [name |-> "id", primary |-> TRUE, notNull |-> TRUE],
             postId |-> [name |-> "post_id", primary |-> FALSE, notNull |-> TRUE],
             userId |-> [name |-> "user_id", primary |-> FALSE, notNull |-> TRUE]]

HasColumn(t, key) == key \in DOMAIN Columns(t)

Relations(t) ==
    CASE t = "user" ->
            [posts |-> [targetTableName |-> "post", many |-> TRUE,
                        field |-> "id", reference |-> "authorId"],
             comments |-> [targetTableName |-> "comment", many |-> TRUE,
                           field |-> "id", reference |-> "userId"]]
      [] t = "post" ->
            [author |-> [targetTableName |-> "user", many |-> FALSE,
                         field |-> "authorId", reference |-> "id"],
             comments |-> [targetTableName |-> "comment", many |-> TRUE,
                           field |-> "postId", reference |-> "postId"]]
      [] OTHER ->
            [post |-> [targetTableName |-> "post", many |-> FALSE,
                       field |-> "postId", reference |-> "postId"],
             user |-> [targetTableName |-> "user", many |-> FALSE,
                       field |-> "userId", reference |-> "id"]]

\* ------------------------------------------------------------------------
\* Compiled predicates (the SQL values built by drizzle's eq, and, or, ...)
\* and the outcome of a compile: a predicate, "no filter", or a thrown
\* GraphQLError.
\* ------------------------------------------------------------------------
Sql(op, col, val, args) == [op |-> op, col |-> col, val |-> val, args |-> args]
NoFilter == Sql("undefined", "", Undefined, <<>>)

NoError == [kind |-> "none", name |-> "", op |-> ""]
Ok(sql) == [err |-> NoError, sql |-> sql]
Throw(kind, name, op) ==
    [err |-> [kind |-> kind, name |-> name, op |-> op], sql |-> NoFilter]
Failed(r) == r.err.kind # "none"

CompareOps == {"eq", "ne", "gt", "gte", "lt", "lte"}
LikeOps == {"like", "notLike", "ilike", "notIlike"}
ArrayOps == {"inArray", "notInArray"}
NullOps == {"isNull", "isNotNull"}
OperatorNames == CompareOps \cup LikeOps \cup ArrayOps \cup NullOps

\* An entry of a ColumnFilters object: [k: key, v: value, or: the OR list].
OpEntry(k, v) == [k |-> k, v |-> v, or |-> <<>>]
OrEntry(list) == [k |-> "OR", v |-> Undefined, or |-> list]

\* operators.OR of an object given by its entries (<<>> when unset or null).
OrListOf(entries) ==
    IF \E i \in 1..Len(entries) : entries[i].k = "OR"
    THEN entries[CHOOSE i \in 1..Len(entries) : entries[i].k = "OR"].or
    ELSE <<>>

\* A compiler that emits an empty conjunction where nothing was compiled.
CombineOrEmpty(op, variants) ==
    IF Len(variants) = 1 THEN variants[1]
    ELSE Sql(op, "", Undefined, variants)

\* A compiler that conjoins where it should disjoin.
CombineAnd(op, variants) ==
    IF Len(variants) = 0 THEN NoFilter
    ELSE IF Len(variants) > 1 THEN Sql("and", "", Undefined, variants)
    ELSE variants[1]

\* or(...variants) / and(...variants) with the single-variant shortcut.
Combine(op, variants) ==
    IF Len(variants) = 0 THEN NoFilter
    ELSE IF Len(variants) > 1 THEN Sql(op, "", Undefined, variants)
    ELSE variants[1]

\* data-mappers' remapFromGraphQLCore on the data kinds of the schema above
\* (number and string columns): the value is passed through.
remapFromGraphQLCore(value) == value

\* A compiler that compiles every operator entry, a null or false operand
\* included.
compileOperatorNoSkip(columnName, e) ==
    IF e.k \in CompareOps \cup LikeOps THEN Ok(Sql(e.k, columnName, e.v, <<>>))
    ELSE IF e.k \in ArrayOps
        THEN IF e.v.t = "array" /\ Len(e.v.xs) = 0
             THEN Throw("empty_array", columnName, e.k)
             ELSE Ok(Sql(e.k, columnName, e.v, <<>>))
    ELSE IF e.k \in NullOps THEN Ok(Sql(e.k, columnName, Undefined, <<>>))
    ELSE Ok(NoFilter)

\* A compiler that takes an empty operand list as it takes any other.
compileOperatorAnyList(columnName, e) ==
    IF e.v = Null \/ e.v = False THEN Ok(NoFilter)
    ELSE IF e.k \in OperatorNames THEN Ok(Sql(e.k, columnName, e.v, <<>>))
    ELSE Ok(NoFilter)

\* One operator entry of the loop of extractFiltersColumn: the variants it
\* pushes (none or one), or the error it throws.
compileOperator(columnName, e) ==
    IF e.v = Null \/ e.v = False THEN Ok(NoFilter)
    ELSE IF e.k \in CompareOps
        THEN Ok(Sql(e.k, columnName, remapFromGraphQLCore(e.v), <<>>))
    ELSE IF e.k \in LikeOps THEN Ok(Sql(e.k, columnName, e.v, <<>>))
    ELSE IF e.k \in ArrayOps
        THEN IF Len(e.v.xs) = 0
             THEN Throw("empty_array", columnName, e.k)
             ELSE Ok(Sql(e.k, columnName,
                         Arr([i \in 1..Len(e.v.xs) |->
                                 remapFromGraphQLCore(e.v.xs[i])]), <<>>))
    ELSE IF e.k \in NullOps THEN Ok(Sql(e.k, columnName, Undefined, <<>>))
    ELSE Ok(NoFilter)

\* The outcome of a loop that compiles each element and pushes what it
\* compiled: the first error thrown, else the and/or of the pushed variants.
collect(op, results) ==
    IF \E i \in 1..Len(results) : Failed(results[i])
    THEN results[CHOOSE i \in 1..Len(results) :
                    Failed(results[i]) /\ \A j \in 1..(i - 1) : ~Failed(results[j])]
    ELSE LET pushed(r) == r.sql # NoFilter
             variants == SelectSeq(results, pushed)
         IN Ok(Combine(op, [i \in 1..Len(variants) |-> variants[i].sql]))

RECURSIVE extractFiltersColumn(_, _)
extractFiltersColumn(columnName, operators) ==
    IF Len(operators) = 0 THEN Ok(NoFilter)
    ELSE IF Len(OrListOf(operators)) > 0
        THEN IF Len(operators) > 1
             THEN Throw("or_conflict_column", columnName, "OR")
             ELSE collect("or", [i \in 1..Len(OrListOf(operators)) |->
                     extractFiltersColumn(columnName, OrListOf(operators)[i])])
    ELSE collect("and", [i \in 1..Len(operators) |->
             compileOperator(columnName, operators[i])])

\* An entry of a WhereInput object: [k: key, c: the column's ColumnFilters
\* (its entries), isNull: the value is null, or: the OR list].
ColEntry(k, c) == [k |-> k, c |-> c, isNull |-> FALSE, or |-> <<>>]
NullColEntry(k) == [k |-> k, c |-> <<>>, isNull |-> TRUE, or |-> <<>>]
WhereOr(list) == [k |-> "OR", c |-> <<>>, isNull |-> FALSE, or |-> list]

\* One iteration of the loop over the entries of where in buildWhereClause.
whereColumn(t, e) ==
    IF e.k = "OR" \/ e.isNull \/ Len(e.c) = 0 \/ ~HasColumn(t, e.k)
    THEN Ok(NoFilter)
    ELSE extractFiltersColumn(e.k, e.c)

RECURSIVE buildWhereClause(_, _)

\* A compiler that does not test for keys next to OR at table level.
buildWhereClauseLenient(t, where) ==
    IF Len(where) = 0 THEN Ok(NoFilter)
    ELSE IF Len(OrListOf(where)) > 0
        THEN collect("or", [i \in 1..Len(OrListOf(where)) |->
                buildWhereClause(t, OrListOf(where)[i])])
    ELSE collect("and", [i \in 1..Len(where) |-> whereColumn(t, where[i])])

\* where is the sequence of the entries of the WhereInput object; an absent
\* where argument is the empty sequence (both compile to "no filter").
buildWhereClause(t, where) ==
    IF Len(where) = 0 THEN Ok(NoFilter)
    ELSE IF Len(OrListOf(where)) > 0
        THEN IF Len(where) > 1
             THEN Throw("or_conflict_table", t, "OR")
             ELSE collect("or", [i \in 1..Len(OrListOf(where)) |->
                     buildWhereClause(t, OrListOf(where)[i])])
    ELSE collect("and", [i \in 1..Len(where) |-> whereColumn(t, where[i])])

\* ------------------------------------------------------------------------
\* Order compiler (utils/selection).  orderBy is the sequence of the entries
\* of the OrderByInput object, in insertion order.
\* ------------------------------------------------------------------------
OrderEntry(columnName, direction, priority) ==
    [columnName |-> columnName, direction |-> direction, priority |-> priority]

RECURSIVE insertByPriority(_, _)
insertByPriority(sorted, e) ==
    IF Len(sorted) = 0 THEN <<e>>
    ELSE IF sorted[Len(sorted)].priority - e.priority <= 0
        THEN Append(sorted, e)
    ELSE Append(insertByPriority(SubSeq(sorted, 1, Len(sorted) - 1), e),
                sorted[Len(sorted)])

\* A compiler that leaves the entries in the order of the input object.
keepInputOrder(entries) == entries

\* orderEntries.sort((a, b) => a.priority - b.priority): a stable sort.
RECURSIVE sortByPriority(_)
sortByPriority(entries) ==
    IF Len(entries) = 0 THEN <<>>
    ELSE insertByPriority(sortByPriority(SubSeq(entries, 1, Len(entries) - 1)),
                          entries[Len(entries)])

OrderClause(col, dir) == [col |-> col, dir |-> dir]
NoOrder == [defined |-> FALSE, clauses |-> <<>>]

RECURSIVE orderClauses(_, _)
orderClauses(t, entries) ==
    IF Len(entries) = 0 THEN <<>>
    ELSE LET e == entries[1]
             rest == orderClauses(t, Tail(entries))
         IN IF HasColumn(t, e.columnName)
            THEN <<OrderClause(e.columnName,
                       IF e.direction = "desc" THEN "desc" ELSE "asc")>> \o rest
            ELSE rest

buildOrderByClause(t, orderBy) ==
    IF Len(orderBy) = 0 THEN NoOrder
    ELSE LET clauses == orderClauses(t, sortByPriority(orderBy))
         IN IF Len(clauses) > 0
            THEN [defined |-> TRUE, clauses |-> clauses]
            ELSE NoOrder

\* ------------------------------------------------------------------------
\* Selection and relation planner (utils/selection).  A requested-field
\* tree maps a field name to [args, fields]; args is [where, orderBy,
\* limit, offset] with Undefined for an absent limit or offset.
\* ------------------------------------------------------------------------
NoArgs == [where |-> <<>>, orderBy |-> <<>>, limit |-> Undefined, offset |-> Undefined]
Field(args, fields) == [args |-> args, fields |-> fields]
Leaf == Field(NoArgs, <<>>)

\* A projection that keeps every requested field name.
extractSelectedColumnsAny(fields, t) == DOMAIN fields

extractSelectedColumns(fields, t) ==
    {f \in DOMAIN fields : HasColumn(t, f)}

Plan(columns, where, orderBy, limit, offset, with) ==
    [columns |-> columns, where |-> where, orderBy |-> orderBy,
     limit |-> limit, offset |-> offset, with |-> with]

RelationKeys(t) ==
    CASE t = "user" -> <<"posts", "comments">>
      [] t = "post" -> <<"author", "comments">>
      [] OTHER -> <<"post", "user">>

PlanOk(plan) == [err |-> NoError, plan |-> plan]
PlanThrow(err) == [err |-> err, plan |-> <<>>]

\* thisRecord of one requested relation, given its compiled where and the
\* with-object of its own sub-selection.
relationRecord(target, relationField, where, nestedWith) ==
    IF Failed(where) THEN PlanThrow(where.err)
    ELSE IF Failed(nestedWith) THEN nestedWith
    ELSE PlanOk(Plan(extractSelectedColumns(relationField.fields, target),
                     where.sql,
                     buildOrderByClause(target, relationField.args.orderBy),
                     relationField.args.limit, relationField.args.offset,
                     nestedWith.plan))

\* The args object once the loop over the table's relations has run:
\* records holds, per requested relation, its thisRecord or the error its
\* compile threw.  The empty function stands for undefined.
withObject(t, records) ==
    LET requested == SelectSeq(RelationKeys(t), LAMBDA r : r \in DOMAIN records)
        failed(i) == Failed(records[requested[i]])
    IN IF \E i \in 1..Len(requested) : failed(i)
       THEN records[requested[CHOOSE i \in 1..Len(requested) :
                        failed(i) /\ \A j \in 1..(i - 1) : ~failed(j)]]
       ELSE PlanOk([r \in DOMAIN records |-> records[r].plan])

\* A planner whose allFields object is declared once, outside the loop over
\* the table's relations, so that the sub-selections of sibling relations
\* accumulate in it.
RECURSIVE extractRelationsParamsShared(_, _)
extractRelationsParamsShared(t, fields) ==
    LET requested == DOMAIN fields \cap DOMAIN Relations(t)
        allFields(relName) ==
            [f \in UNION {DOMAIN fields[r].fields : r \in requested} |->
                IF f \in DOMAIN fields[relName].fields
                THEN fields[relName].fields[f]
                ELSE fields[CHOOSE r \in requested :
                                f \in DOMAIN fields[r].fields].fields[f]]
    IN withObject(t,
        [relName \in requested |->
            relationRecord(Relations(t)[relName].targetTableName,
                fields[relName],
                buildWhereClause(Relations(t)[relName].targetTableName,
                                 fields[relName].args.where),
                extractRelationsParamsShared(
                    Relations(t)[relName].targetTableName,
                    allFields(relName)))])

RECURSIVE extractRelationsParams(_, _)
extractRelationsParams(t, fields) ==
    withObject(t,
        [relName \in DOMAIN fields \cap DOMAIN Relations(t) |->
            relationRecord(Relations(t)[relName].targetTableName,
                fields[relName],
                buildWhereClause(Relations(t)[relName].targetTableName,
                                 fields[relName].args.where),
                extractRelationsParams(Relations(t)[relName].targetTableName,
                                       fields[relName].fields))])

\* ------------------------------------------------------------------------
\* The storage capability (drizzle's relational query builder and write
\* builders over SQLite): a table is a set of rows keyed by property name.
\* ------------------------------------------------------------------------
LikeMatch(v, p) == v.t = "num" /\ (p = Wild \/ (p.t = "num" /\ p.n = v.n))

\* SQL comparison of a column value v with the operand of an operator; a
\* comparison with NULL is never true.
Compare(op, v, val) ==
    LET cmp == v.t = "num" /\ val.t = "num"
    IN CASE op = "eq" -> cmp /\ v.n = val.n
         [] op = "ne" -> cmp /\ v.n # val.n
         [] op = "gt" -> cmp /\ v.n > val.n
         [] op = "gte" -> cmp /\ v.n >= val.n
         [] op = "lt" -> cmp /\ v.n < val.n
         [] op = "lte" -> cmp /\ v.n <= val.n
         [] op \in {"like", "ilike"} -> LikeMatch(v, val)
         [] op \in {"notLike", "notIlike"} -> v.t = "num" /\ ~LikeMatch(v, val)
         [] op = "inArray" ->
                v.t = "num" /\ \E i \in 1..Len(val.xs) : val.xs[i] = v
         [] op = "notInArray" ->
                v.t = "num" /\ \A i \in 1..Len(val.xs) : val.xs[i] # v
         [] op = "isNull" -> v.t = "null"
         [] op = "isNotNull" -> v.t = "num"
         [] OTHER -> FALSE

RECURSIVE Holds(_, _)
Holds(sql, row) ==
    CASE sql.op = "and" -> \A i \in 1..Len(sql.args) : Holds(sql.args[i], row)
      [] sql.op = "or" -> \E i \in 1..Len(sql.args) : Holds(sql.args[i], row)
      [] OTHER -> Compare(sql.op,
                          IF sql.col \in DOMAIN row THEN row[sql.col] ELSE Undefined,
                          sql.val)

\* A condition-less statement applies to every row.
Matches(where, row) == where = NoFilter \/ Holds(where, row)

PkKey(t) == ColumnKeys(t)[1]

\* Row order under the ORDER BY clauses, ties and the default order being
\* the order of the table's key.
RECURSIVE Before(_, _, _, _)
Before(t, clauses, r1, r2) ==
    IF Len(clauses) = 0 THEN r1[PkKey(t)].n < r2[PkKey(t)].n
    ELSE LET c == clauses[1]
             a == r1[c.col].n
             b == r2[c.col].n
         IN IF a = b THEN Before(t, Tail(clauses), r1, r2)
            ELSE IF c.dir = "desc" THEN a > b ELSE a < b

RECURSIVE SortRows(_, _, _)
SortRows(t, clauses, rows) ==
    IF rows = {} THEN <<>>
    ELSE LET first == CHOOSE r \in rows :
                          \A o \in rows \ {r} : Before(t, clauses, r, o)
         IN <<first>> \o SortRows(t, clauses, rows \ {first})

Page(rows, limit, offset) ==
    LET from == IF offset.t = "num" THEN offset.n + 1 ELSE 1
        upTo == IF limit.t = "num" THEN from + limit.n - 1 ELSE Len(rows)
    IN SubSeq(rows, from, IF upTo > Len(rows) THEN Len(rows) ELSE upTo)

\* One execution of a nested fetch plan: the rows of table t admitted by
\* the candidate predicate, filtered, ordered, paged and projected, each
\* with the rows of its child plans.  rid is the row's key, kept next to
\* the projection to identify the row.
\* A one-relation yields at most one row.
Related(many, found) == IF many \/ Len(found) = 0 THEN found ELSE <<found[1]>>

Projected(t, plan, sorted, children) ==
    [i \in 1..Len(sorted) |->
        [rid |-> sorted[i][PkKey(t)],
         cols |-> [c \in plan.columns |-> sorted[i][c]],
         rels |-> children[i]]]

RECURSIVE Fetch(_, _, _, _)
RECURSIVE Children(_, _, _, _)

Children(data, t, plan, sorted) ==
    [i \in 1..Len(sorted) |->
        [rel \in DOMAIN plan.with |->
            Related(Relations(t)[rel].many,
                Fetch(data, Relations(t)[rel].targetTableName, plan.with[rel],
                      {x \in data[Relations(t)[rel].targetTableName] :
                          x[Relations(t)[rel].reference] =
                              sorted[i][Relations(t)[rel].field]}))]]

Selected(t, plan, candidates) ==
    Page(SortRows(t, plan.orderBy.clauses,
                  {r \in candidates : Matches(plan.where, r)}),
         plan.limit, plan.offset)

Fetch(data, t, plan, candidates) ==
    Projected(t, plan, Selected(t, plan, candidates),
              Children(data, t, plan, Selected(t, plan, candidates)))

\* ------------------------------------------------------------------------
\* State
\* ------------------------------------------------------------------------
VARIABLES
    db,          \* the store: table name -> set of rows
    pc,          \* "idle", "reselect" (a mutation between its write and its
                 \* re-select) or "done"
    op,          \* the root field being resolved: kind, table and arguments
    log,         \* the storage calls the resolver has submitted so far
    result,      \* what the resolver returned or threw
    written,     \* insertedIds / updatedIds of the mutation in flight
    snapshot,    \* the store when the operation started
    interfered,  \* another writer changed the store during the operation
    fault,       \* the error the store threw during the operation, if any
    input,       \* input of the compiler under check (compiler runs)
    output,      \* its output
    globals,     \* the module-level tracking sets of generator/schema
    exportStore, \* the ExportStore of the operation: store and pending
    promises,    \* the promises waitFor has returned
    wrapped      \* the invocations of resolvers wrapped by the export
                 \* middleware

\* What the resolvers and the compilers leave alone.
tools == <<globals, exportStore, promises, wrapped>>

vars ==
    <<db, pc, op, log, result, written, snapshot, interfered, fault, input, output,
      tools>>

\* No build has run and no operation uses exports.
ToolsIdle ==
    /\ globals = [customScalars |-> {}, enumDefinitions |-> <<>>,
                  requiredFieldFilters |-> <<>>, foreignKeyTypes |-> <<>>]
    /\ exportStore = [store |-> <<>>, pending |-> <<>>]
    /\ promises = <<>>
    /\ wrapped = <<>>

\* ------------------------------------------------------------------------
\* Storage calls and resolver results
\* ------------------------------------------------------------------------
NoPlan == Plan({}, NoFilter, NoOrder, Undefined, Undefined, <<>>)
NoPayload == [present |-> FALSE, list |-> <<>>, obj |-> <<>>]
Values(list) == [present |-> TRUE, list |-> list, obj |-> <<>>]
SetOf(obj) == [present |-> TRUE, list |-> <<>>, obj |-> obj]

Call(call, t, plan, payload) ==
    [call |-> call, table |-> t, plan |-> plan, payload |-> payload]

NoResult == [kind |-> "none", rows |-> <<>>, err |-> NoError]
Rows(rows) == [kind |-> "rows", rows |-> rows, err |-> NoError]
Row(rows) == [kind |-> "row", rows |-> rows, err |-> NoError]
NullResult == [kind |-> "null", rows |-> <<>>, err |-> NoError]
DeleteResult(items) == [kind |-> "deleteResult", rows |-> items, err |-> NoError]
Error(err) == [kind |-> "error", rows |-> <<>>, err |-> err]

Outcome(calls, res) == [calls |-> calls, result |-> res]

\* A resolver that fetches each requested relation of the root by a call of
\* its own.
submitQueryPerRelation(call, t, plan) ==
    <<Call(call, t, plan, NoPayload)>>
    \o [i \in 1..Len(SelectSeq(RelationKeys(t), LAMBDA r : r \in DOMAIN plan.with)) |->
           Call("findMany", Relations(t)[RelationKeys(t)[i]].targetTableName,
                plan.with[RelationKeys(t)[i]], NoPayload)]

\* queryBase.findMany({...}) / queryBase.findFirst({...}): the storage calls
\* one resolution of a query root field submits.
submitQuery(call, t, plan) == <<Call(call, t, plan, NoPayload)>>

\* The try block of createFindManyResolver and createFindFirstResolver up
\* to the storage call: the argument object is evaluated in source order
\* (orderBy, where, with), then the call is submitted.
queryPlan(t, args, fields, where, with) ==
    IF Failed(where) THEN PlanThrow(where.err)
    ELSE IF Failed(with) THEN with
    ELSE PlanOk(Plan(extractSelectedColumns(fields, t), where.sql,
                     buildOrderByClause(t, args.orderBy),
                     args.limit, args.offset, with.plan))

planQuery(t, args, fields) ==
    queryPlan(t, args, fields, buildWhereClause(t, args.where),
              extractRelationsParams(t, fields))

\* A resolver that submits the root call before the arguments of the
\* requested relations are compiled.
findManyOutcomeEager(data, t, p) ==
    IF Failed(p)
    THEN Outcome(submitQuery("findMany", t, NoPlan), Error(p.err))
    ELSE Outcome(submitQuery("findMany", t, p.plan),
                 Rows(Fetch(data, t, p.plan, data[t])))

findManyOutcome(data, t, p) ==
    IF Failed(p) THEN Outcome(<<>>, Error(p.err))
    ELSE Outcome(submitQuery("findMany", t, p.plan),
                 Rows(Fetch(data, t, p.plan, data[t])))

createFindManyResolver(data, t, args, fields) ==
    findManyOutcome(data, t, planQuery(t, args, fields))

\* A resolver that returns the store's result as it is.
FirstOrUndefined(found) ==
    IF Len(found) = 0 THEN Rows(<<>>) ELSE Row(<<found[1]>>)

FirstOrNull(found) == IF Len(found) = 0 THEN NullResult ELSE Row(<<found[1]>>)

findFirstOutcome(data, t, p) ==
    IF Failed(p) THEN Outcome(<<>>, Error(p.err))
    ELSE Outcome(submitQuery("findFirst", t, p.plan),
                 FirstOrNull(Fetch(data, t, p.plan, data[t])))

\* findFirst has no limit/offset argument; the store returns the first row
\* of the plan or undefined, and the resolver returns result || null.
createFindFirstResolver(data, t, args, fields) ==
    findFirstOutcome(data, t,
        planQuery(t, [args EXCEPT !.limit = Undefined, !.offset = Undefined],
                  fields))

\* An error thrown by the store when it runs a call: its message and the
\* call that threw.
Failure(msg, call) == [kind |-> "storage", name |-> msg, op |-> call]
FailureMessages == {"SQLITE_BUSY", "SQLITE_IOERR"}

\* A resolver that submits the call again when the store throws.
queryCaughtRetried(data, call, t, p, e) ==
    IF Failed(p)
    THEN [calls |-> <<>>, result |-> Error(p.err), data |-> data, ids |-> <<>>,
          next |-> "done", fault |-> NoError]
    ELSE [calls |-> submitQuery(call, t, p.plan) \o submitQuery(call, t, p.plan),
          result |-> Error(e), data |-> data, ids |-> <<>>, next |-> "done",
          fault |-> e]

\* createFindManyResolver / createFindFirstResolver when the store throws e
\* from the call: the catch block rethrows e's message.
queryCaught(data, call, t, p, e) ==
    IF Failed(p)
    THEN [calls |-> <<>>, result |-> Error(p.err), data |-> data, ids |-> <<>>,
          next |-> "done", fault |-> NoError]
    ELSE [calls |-> submitQuery(call, t, p.plan), result |-> Error(e),
          data |-> data, ids |-> <<>>, next |-> "done", fault |-> e]

\* ------------------------------------------------------------------------
\* Writes of the store
\* ------------------------------------------------------------------------
\* The outcome of a write the store refused with e: nothing is written.
Thrown(e, data) == [err |-> e, data |-> data, rows |-> <<>>]

StorageError(what, t) == [kind |-> "storage", name |-> t, op |-> what]

Keys(t, rows) == {r[PkKey(t)] : r \in rows}
Range(s) == {s[i] : i \in 1..Len(s)}

\* db.insert(table).values(values).returning()
insertReturning(data, t, values) ==
    LET new == Range(values)
        clash == Cardinality(Keys(t, new)) < Len(values)
                 \/ Keys(t, new) \cap Keys(t, data[t]) # {}
    IN IF clash
       THEN [err |-> StorageError("insert", t), data |-> data, rows |-> <<>>]
       ELSE [err |-> NoError,
             data |-> [data EXCEPT ![t] = data[t] \cup new],
             rows |-> values]

ApplySet(set, row) ==
    [c \in DOMAIN row |-> IF c \in DOMAIN set THEN set[c] ELSE row[c]]

\* An update that touches no row when it is given no condition.
updateReturningGuarded(data, t, set, where) ==
    LET matched == {r \in data[t] : where # NoFilter /\ Matches(where, r)}
        updated == {ApplySet(set, r) : r \in matched}
        after == (data[t] \ matched) \cup updated
        clash == Cardinality(Keys(t, after)) < Cardinality(data[t])
    IN IF clash
       THEN [err |-> StorageError("update", t), data |-> data, rows |-> <<>>]
       ELSE [err |-> NoError,
             data |-> [data EXCEPT ![t] = after],
             rows |-> SortRows(t, <<>>, updated)]

\* db.update(table).set(set).where(where).returning()
updateReturning(data, t, set, where) ==
    LET matched == {r \in data[t] : Matches(where, r)}
        updated == {ApplySet(set, r) : r \in matched}
        after == (data[t] \ matched) \cup updated
        clash == Cardinality(Keys(t, after)) < Cardinality(data[t])
    IN IF clash
       THEN [err |-> StorageError("update", t), data |-> data, rows |-> <<>>]
       ELSE [err |-> NoError,
             data |-> [data EXCEPT ![t] = after],
             rows |-> SortRows(t, <<>>, updated)]

\* db.delete(table).where(where).returning()
deleteReturning(data, t, where) ==
    LET matched == {r \in data[t] : Matches(where, r)}
    IN [err |-> NoError,
        data |-> [data EXCEPT ![t] = data[t] \ matched],
        rows |-> SortRows(t, <<>>, matched)]

\* ------------------------------------------------------------------------
\* Mutation resolvers (generator/mutations)
\* ------------------------------------------------------------------------
\* generateMutations: Object.values(tableInfo.columns).find(
\*     col => col.primary || col.name === "id")
primaryKeyColumn(t) ==
    LET is(i) == Columns(t)[ColumnKeys(t)[i]].primary
                 \/ Columns(t)[ColumnKeys(t)[i]].name = "id"
        first == CHOOSE i \in 1..Len(ColumnKeys(t)) :
                     is(i) /\ \A j \in 1..(i - 1) : ~is(j)
    IN Columns(t)[ColumnKeys(t)[first]]

\* rows.map(row => row[primaryKeyColumn.name])
extractIds(t, rows) ==
    [i \in 1..Len(rows) |->
        IF primaryKeyColumn(t).name \in DOMAIN rows[i]
        THEN rows[i][primaryKeyColumn(t).name]
        ELSE Undefined]

\* { where: { [primaryKeyColumn.name]: { inArray: ids } } }
reselectArgs(t, ids) ==
    [NoArgs EXCEPT !.where =
        <<ColEntry(primaryKeyColumn(t).name, <<OpEntry("inArray", Arr(ids))>>)>>]

NoValuesInsert == [kind |-> "no_values", name |-> "", op |-> "insert"]
NoValuesUpdate == [kind |-> "no_values", name |-> "", op |-> "update"]

Step(calls, res, data, ids, next) ==
    [calls |-> calls, result |-> res, data |-> data, ids |-> ids, next |-> next,
     fault |-> NoError]

\* catch (e) { throw new GraphQLError(String(e.message)) } after the store
\* threw e from the last of calls: the resolver ends with e's message.
Caught(calls, e, data) ==
    [calls |-> calls, result |-> Error(e), data |-> data, ids |-> <<>>,
     next |-> "done", fault |-> e]

\* data-mappers' remapFromGraphQLArrayInput / remapFromGraphQLSingleInput on
\* inputs that name columns of the table only: the values pass through.
remapFromGraphQLArrayInput(values) == values
remapFromGraphQLSingleInput(set) == set

\* A resolver that answers with the rows the write returned and submits no
\* re-select.
WriteStepReturning(t, calls, w) ==
    IF Failed(w) THEN Caught(calls, w.err, w.data)
    ELSE Step(calls,
              Rows([i \in 1..Len(w.rows) |->
                       [rid |-> w.rows[i][PkKey(t)], cols |-> w.rows[i],
                        rels |-> <<>>]]),
              w.data, <<>>, "done")

\* The write has been awaited: a storage error ends the resolver, else the
\* ids of the returned rows are extracted for the re-select.
WriteStep(t, calls, w) ==
    IF Failed(w) THEN Caught(calls, w.err, w.data)
    ELSE Step(calls, NoResult, w.data, extractIds(t, w.rows), "reselect")

\* A resolver that submits the insert without validating the value list.
insertManyWriteUnchecked(data, t, values) ==
    WriteStep(t, <<Call("insert", t, NoPlan, values)>>,
              insertReturning(data, t, remapFromGraphQLArrayInput(values.list)))

\* createInsertManyResolver up to the re-select: validation, the insert
\* with RETURNING and the extraction of the inserted ids.
insertManyWrite(data, t, values) ==
    IF ~values.present \/ Len(values.list) = 0
    THEN Step(<<>>, Error(NoValuesInsert), data, <<>>, "done")
    ELSE WriteStep(t, <<Call("insert", t, NoPlan, values)>>,
                   insertReturning(data, t, remapFromGraphQLArrayInput(values.list)))

updateWrite(data, t, set, whereClause, w) ==
    IF Failed(whereClause)
    THEN Step(<<>>, Error(whereClause.err), data, <<>>, "done")
    ELSE WriteStep(t, <<Call("update", t,
                             [NoPlan EXCEPT !.where = whereClause.sql], set)>>,
                   w)

updateWhere(data, t, set, whereClause) ==
    updateWrite(data, t, set, whereClause,
                updateReturning(data, t, remapFromGraphQLSingleInput(set.obj),
                                whereClause.sql))

\* createUpdateManyResolver up to the re-select.
updateManyWrite(data, t, where, set) ==
    IF ~set.present \/ DOMAIN set.obj = {}
    THEN Step(<<>>, Error(NoValuesUpdate), data, <<>>, "done")
    ELSE updateWhere(data, t, set, buildWhereClause(t, where))

\* The queryResolver call that ends createInsertManyResolver and
\* createUpdateManyResolver: find-many by the written ids with the caller's
\* sub-selection.
reselect(data, t, ids, fields) ==
    createFindManyResolver(data, t, reselectArgs(t, ids), fields)

\* A returned row object, as the store's RETURNING gives it.
Returned(t, row) == [rid |-> row[PkKey(t)], cols |-> row, rels |-> <<>>]

deleteStep(t, whereClause, data, w, res) ==
    IF Failed(whereClause)
    THEN Step(<<>>, Error(whereClause.err), data, <<>>, "done")
    ELSE IF Failed(w)
        THEN Caught(<<Call("delete", t, [NoPlan EXCEPT !.where = whereClause.sql],
                           NoPayload)>>, w.err, w.data)
    ELSE Step(<<Call("delete", t, [NoPlan EXCEPT !.where = whereClause.sql],
                     NoPayload)>>,
              res, w.data, <<>>, "done")

deletedRows(t, whereClause, data, w) ==
    deleteStep(t, whereClause, data, w,
               Rows([i \in 1..Len(w.rows) |-> Returned(t, w.rows[i])]))

deleteWhereRows(data, t, whereClause) ==
    deletedRows(t, whereClause, data, deleteReturning(data, t, whereClause.sql))

\* The DeleteMany resolver of generateMutations: returns the deleted rows.
deleteManyRows(data, t, where) ==
    deleteWhereRows(data, t, buildWhereClause(t, where))

deletedItems(t, whereClause, data, w, ids) ==
    deleteStep(t, whereClause, data, w,
               DeleteResult([i \in 1..Len(w.rows) |->
                   [rid |-> w.rows[i][PkKey(t)],
                    cols |-> [id |-> ids[i]],
                    rels |-> <<>>]]))

deleteReturned(t, whereClause, data, w) ==
    deletedItems(t, whereClause, data, w, extractIds(t, w.rows))

deleteWhereItems(data, t, whereClause) ==
    deleteReturned(t, whereClause, data, deleteReturning(data, t, whereClause.sql))

\* createDeleteManyResolver: returns { deletedItems: [{ id }], <table>FindMany }.
createDeleteManyResolver(data, t, where) ==
    deleteWhereItems(data, t, buildWhereClause(t, where))

\* ------------------------------------------------------------------------
\* Inputs of the resolvers
\* ------------------------------------------------------------------------
OtherKey(t) == ColumnKeys(t)[2]
RelKey(t) == RelationKeys(t)[1]
Target(t) == Relations(t)[RelKey(t)].targetTableName
OtherVals(t) == IF t = "user" THEN {Null, Num(1)} ELSE {Num(1), Num(2)}

RowsOf(t) ==
    {[c \in DOMAIN Columns(t) |-> IF c = PkKey(t) THEN k ELSE v] :
        k \in Nums, v \in OtherVals(t)}

Eq(col, v) == <<ColEntry(col, <<OpEntry("eq", v)>>)>>
EmptyIn(col) == <<ColEntry(col, <<OpEntry("inArray", Arr(<<>>))>>)>>
EitherKey(t) == <<WhereOr(<<Eq(PkKey(t), Num(1)), Eq(PkKey(t), Num(2))>>)>>

ValidWheres(t) ==
    {<<>>, Eq(PkKey(t), Num(1)), Eq(PkKey(t), Num(2)), Eq(OtherKey(t), Num(1)),
     EitherKey(t), Eq(OtherKey(t), Null)}
InvalidWheres(t) ==
    {EmptyIn(PkKey(t)), Eq(PkKey(t), Num(1)) \o EitherKey(t)}
WhereMenu(t) == ValidWheres(t) \cup InvalidWheres(t)

\* The filters of the writes: those of the queries and a filter holding an
\* empty column object only.
WriteWheres(t) == WhereMenu(t) \cup {<<ColEntry(OtherKey(t), <<>>)>>}

ArgsMenu(t) ==
    {[NoArgs EXCEPT !.where = w] : w \in WhereMenu(t)}
    \cup {[NoArgs EXCEPT !.orderBy = <<OrderEntry(OtherKey(t), "desc", 1)>>,
                         !.limit = Num(1)],
          [NoArgs EXCEPT !.offset = Num(1)]}

FieldsMenu(t) ==
    {PkKey(t) :> Leaf,
     (PkKey(t) :> Leaf) @@ (OtherKey(t) :> Leaf) @@ ("_operation" :> Leaf),
     (PkKey(t) :> Leaf) @@
        (RelKey(t) :> Field([NoArgs EXCEPT !.where = Eq(PkKey(Target(t)), Num(1))],
            (PkKey(Target(t)) :> Leaf) @@
            (RelKey(Target(t)) :> Field(NoArgs, PkKey(t) :> Leaf)))),
     (OtherKey(t) :> Leaf) @@
        (RelKey(t) :> Field(NoArgs, OtherKey(Target(t)) :> Leaf)),
     (PkKey(t) :> Leaf) @@
        (RelKey(t) :> Field([NoArgs EXCEPT !.where = EmptyIn(PkKey(Target(t)))],
            PkKey(Target(t)) :> Leaf)),
     (PkKey(t) :> Leaf) @@
        (RelKey(t) :> Field(NoArgs,
            (PkKey(Target(t)) :> Leaf) @@
            (RelKey(Target(t)) :>
                Field([NoArgs EXCEPT !.where = Eq(PkKey(t), Num(1)) \o EitherKey(t)],
                      PkKey(t) :> Leaf))))}

ValueLists(t) ==
    {<<>>} \cup {<<r>> : r \in RowsOf(t)}
    \cup {<<p[1], p[2]>> : p \in {q \in RowsOf(t) \X RowsOf(t) :
                                     q[1][PkKey(t)].n <= q[2][PkKey(t)].n}}

InsertPayloads(t) == {NoPayload} \cup {Values(l) : l \in ValueLists(t)}

SetPayloads(t) ==
    {NoPayload, SetOf(<<>>)}
    \cup {SetOf(OtherKey(t) :> v) : v \in OtherVals(t)}
    \cup {SetOf(PkKey(t) :> Num(2))}

Op(kind, t, args, payload, fields) ==
    [kind |-> kind, table |-> t, args |-> args, payload |-> payload,
     fields |-> fields]
NoOp == Op("none", "user", NoArgs, NoPayload, <<>>)

\* ------------------------------------------------------------------------
\* Actions: one resolution of a root field at a time; a mutation's write and
\* its re-select are two steps, between which another writer may act.
\* ------------------------------------------------------------------------
Finish(o, step) ==
    /\ op' = o
    /\ log' = step.calls
    /\ result' = step.result
    /\ db' = step.data
    /\ written' = step.ids
    /\ pc' = step.next
    /\ snapshot' = db
    /\ interfered' = FALSE
    /\ fault' = step.fault
    /\ UNCHANGED tools
    /\ UNCHANGED <<input, output>>

QueryStep(data, o) == Step(o.calls, o.result, data, <<>>, "done")

FindMany ==
    /\ pc = "idle"
    /\ \E t \in TableNames : \E args \in ArgsMenu(t), fields \in FieldsMenu(t) :
          Finish(Op("findMany", t, args, NoPayload, fields),
                 QueryStep(db, createFindManyResolver(db, t, args, fields)))

FindFirst ==
    /\ pc = "idle"
    /\ \E t \in TableNames : \E args \in ArgsMenu(t), fields \in FieldsMenu(t) :
          Finish(Op("findFirst", t, args, NoPayload, fields),
                 QueryStep(db, createFindFirstResolver(db, t, args, fields)))

InsertMany ==
    /\ pc = "idle"
    /\ \E t \in TableNames : \E values \in InsertPayloads(t), fields \in FieldsMenu(t) :
          Finish(Op("insertMany", t, NoArgs, values, fields),
                 insertManyWrite(db, t, values))

UpdateMany ==
    /\ pc = "idle"
    /\ \E t \in TableNames : \E w \in WriteWheres(t), set \in SetPayloads(t),
                                  fields \in FieldsMenu(t) :
          Finish(Op("updateMany", t, [NoArgs EXCEPT !.where = w], set, fields),
                 updateManyWrite(db, t, w, set))

Reselect ==
    /\ pc = "reselect"
    /\ \E o \in {reselect(db, op.table, written, op.fields)} :
          /\ log' = log \o o.calls
          /\ result' = o.result
    /\ pc' = "done"
    /\ UNCHANGED tools
    /\ UNCHANGED <<db, op, written, snapshot, interfered, fault, input, output>>

DeleteMany ==
    /\ pc = "idle"
    /\ \E t \in TableNames : \E w \in WriteWheres(t) :
          Finish(Op("deleteMany", t, [NoArgs EXCEPT !.where = w], NoPayload,
                    PkKey(t) :> Leaf),
                 deleteManyRows(db, t, w))

DeleteManyResult ==
    /\ pc = "idle"
    /\ \E t \in TableNames : \E w \in WriteWheres(t) :
          Finish(Op("deleteManyResult", t, [NoArgs EXCEPT !.where = w], NoPayload,
                    PkKey(t) :> Leaf),
                 createDeleteManyResolver(db, t, w))

\* Another client of the store, between a mutation's write and re-select:
\* it deletes a row of the table or overwrites a row's second column.
OtherWriter ==
    /\ pc = "reselect"
    /\ ~interfered
    /\ \E r \in db[op.table] :
          \/ db' = [db EXCEPT ![op.table] = @ \ {r}]
          \/ \E v \in OtherVals(op.table) \ {r[OtherKey(op.table)]} :
                db' = [db EXCEPT ![op.table] =
                          (@ \ {r}) \cup {[r EXCEPT ![OtherKey(op.table)] = v]}]
    /\ interfered' = TRUE
    /\ UNCHANGED tools
    /\ UNCHANGED <<pc, op, log, result, written, snapshot, fault, input, output>>

\* The resolver's promise settles and the runtime takes its outcome: the
\* next root field can be resolved.
Return ==
    /\ pc = "done"
    /\ pc' = "idle"
    /\ op' = NoOp
    /\ log' = <<>>
    /\ result' = NoResult
    /\ written' = <<>>
    /\ snapshot' = db
    /\ interfered' = FALSE
    /\ fault' = NoError
    /\ UNCHANGED tools
    /\ UNCHANGED <<db, input, output>>

NoInput == <<>>

Init ==
    /\ db = [t \in TableNames |-> {}]
    /\ pc = "idle"
    /\ op = NoOp
    /\ log = <<>>
    /\ result = NoResult
    /\ written = <<>>
    /\ snapshot = [t \in TableNames |-> {}]
    /\ interfered = FALSE
    /\ fault = NoError
    /\ input = NoInput
    /\ output = NoInput
    /\ ToolsIdle

Next ==
    \/ FindMany
    \/ FindFirst
    \/ InsertMany
    \/ UpdateMany
    \/ Reselect
    \/ DeleteMany
    \/ DeleteManyResult
    \/ OtherWriter
    \/ Return

Spec == Init /\ [][Next]_vars

\* ------------------------------------------------------------------------
\* The same resolvers over a store that may throw from any call.
\* ------------------------------------------------------------------------
\* The fields requested of an operation one of whose calls is going to
\* throw: the key alone, or the key and a relation.
FailFields(t) ==
    {PkKey(t) :> Leaf,
     (PkKey(t) :> Leaf) @@ (RelKey(t) :> Field(NoArgs, PkKey(Target(t)) :> Leaf))}

QueryFails ==
    /\ pc = "idle"
    /\ \E call \in {"findMany", "findFirst"}, t \in TableNames, msg \in FailureMessages :
          \E args \in ArgsMenu(t), fields \in FailFields(t) :
             \E p \in {planQuery(t, IF call = "findFirst"
                                    THEN [args EXCEPT !.limit = Undefined,
                                                      !.offset = Undefined]
                                    ELSE args, fields)} :
                /\ ~Failed(p)
                /\ Finish(Op(call, t, args, NoPayload, fields),
                          queryCaught(db, call, t, p, Failure(msg, call)))

InsertFails ==
    /\ pc = "idle"
    /\ \E t \in TableNames, msg \in FailureMessages :
          \E values \in InsertPayloads(t), fields \in FailFields(t) :
             /\ values.present /\ Len(values.list) > 0
             /\ Finish(Op("insertMany", t, NoArgs, values, fields),
                       WriteStep(t, <<Call("insert", t, NoPlan, values)>>,
                                 Thrown(Failure(msg, "insert"), db)))

UpdateFails ==
    /\ pc = "idle"
    /\ \E t \in TableNames, msg \in FailureMessages :
          \E w \in ValidWheres(t), set \in SetPayloads(t),
             fields \in FailFields(t) :
             /\ set.present /\ DOMAIN set.obj # {}
             /\ Finish(Op("updateMany", t, [NoArgs EXCEPT !.where = w], set, fields),
                       updateWrite(db, t, set, buildWhereClause(t, w),
                                   Thrown(Failure(msg, "update"), db)))

DeleteFails ==
    /\ pc = "idle"
    /\ \E t \in TableNames, msg \in FailureMessages : \E w \in ValidWheres(t) :
          \/ Finish(Op("deleteMany", t, [NoArgs EXCEPT !.where = w], NoPayload,
                       PkKey(t) :> Leaf),
                    deletedRows(t, buildWhereClause(t, w), db,
                                Thrown(Failure(msg, "delete"), db)))
          \/ Finish(Op("deleteManyResult", t, [NoArgs EXCEPT !.where = w],
                       NoPayload, PkKey(t) :> Leaf),
                    deleteReturned(t, buildWhereClause(t, w), db,
                                   Thrown(Failure(msg, "delete"), db)))

ReselectFails ==
    /\ pc = "reselect"
    /\ \E msg \in FailureMessages :
          \E p \in {planQuery(op.table, reselectArgs(op.table, written), op.fields)} :
             \E o \in {queryCaught(db, "findMany", op.table, p,
                                   Failure(msg, "findMany"))} :
                /\ ~Failed(p)
                /\ log' = log \o o.calls
                /\ result' = o.result
                /\ fault' = o.fault
    /\ pc' = "done"
    /\ UNCHANGED tools
    /\ UNCHANGED <<db, op, written, snapshot, interfered, input, output>>

NextFaulty ==
    \/ Next
    \/ QueryFails
    \/ InsertFails
    \/ UpdateFails
    \/ DeleteFails
    \/ ReselectFails

SpecFaulty == Init /\ [][NextFaulty]_vars

\* ------------------------------------------------------------------------
\* The filter compiler on its own: buildWhereClause applied to one filter
\* input drawn from a grammar of WhereInput objects, nested up to MaxDepth
\* levels of OR at table level and at column level.
\* ------------------------------------------------------------------------
MaxDepth == 2

\* Every operator with an operand, and the operands the compiler treats
\* specially: null, false, the empty list, OR: null and OR: [].
OpEntries ==
    {OpEntry(k, Num(1)) : k \in CompareOps}
        \cup {OpEntry("eq", Num(2)), OpEntry("eq", Null), OpEntry("eq", False)}
        \cup {OpEntry(k, Wild) : k \in LikeOps}
        \cup {OpEntry("like", Num(1)), OpEntry("like", Null)}
        \cup {OpEntry(k, v) : k \in ArrayOps, v \in {Arr(<<>>), Arr(<<Num(1)>>)}}
        \cup {OpEntry("inArray", Arr(<<Num(1), Num(2)>>)), OpEntry("inArray", Null)}
        \cup {OpEntry(k, v) : k \in NullOps, v \in {True, False}}
        \cup {OpEntry("OR", Null), OrEntry(<<>>)}

SecondEntries ==
    {OpEntry("ne", Num(2)), OpEntry("isNotNull", True),
     OpEntry("notInArray", Arr(<<>>))}

\* Column filter objects without a non-empty OR: at most two operators.
ColLeaves ==
    {<<>>} \cup {<<e>> : e \in OpEntries}
        \cup {<<p[1], p[2]>> : p \in {q \in OpEntries \X SecondEntries :
                                        q[1].k # q[2].k}}

ColSeeds ==
    {<<>>, <<OpEntry("eq", Num(1))>>, <<OpEntry("gt", Num(1))>>,
     <<OpEntry("eq", Null)>>, <<OpEntry("inArray", Arr(<<>>))>>,
     <<OpEntry("notInArray", Arr(<<Num(1)>>))>>, <<OpEntry("isNull", True)>>}

SiblingEntries == {OpEntry("eq", Num(1)), OpEntry("eq", Null)}

\* Column filter objects holding an OR list over the variants base: alone,
\* or next to a sibling key written before or after it.
ColOrsOver(base) ==
    {<<OrEntry(<<a>>)>> : a \in base}
        \cup {<<OrEntry(<<a, b>>)>> :
                a \in base, b \in {<<OpEntry("eq", Num(2))>>, <<>>}}
        \cup {<<e, OrEntry(<<a>>)>> : a \in base, e \in SiblingEntries}
        \cup {<<OrEntry(<<a>>), e>> : a \in base, e \in SiblingEntries}

RECURSIVE ColVariants(_)
ColVariants(d) ==
    IF d = 0 THEN ColSeeds ELSE ColSeeds \cup ColOrsOver(ColVariants(d - 1))

ColNodes(d) == ColLeaves \cup ColVariants(d)

\* Table filter objects without a non-empty OR: keys that name the key
\* column, the other column, or no column ("ghost"), and a null value.
WhereLeaves(t, d) ==
    {<<>>, <<NullColEntry(PkKey(t))>>, <<WhereOr(<<>>)>>,
     <<WhereOr(<<>>), ColEntry(PkKey(t), <<OpEntry("eq", Num(1))>>)>>}
        \cup {<<ColEntry(PkKey(t), c)>> : c \in ColNodes(d)}
        \cup {<<ColEntry(OtherKey(t), c)>> : c \in ColNodes(0)}
        \cup {<<ColEntry("ghost", c)>> : c \in ColVariants(1)}
        \cup {<<ColEntry(PkKey(t), a), ColEntry(OtherKey(t), b)>> :
                a \in ColVariants(1), b \in ColSeeds}

WhereSeeds(t) ==
    {<<>>, Eq(PkKey(t), Num(1)), Eq(OtherKey(t), Num(1)), Eq(OtherKey(t), Null),
     EmptyIn(PkKey(t)), Eq("ghost", Num(1)),
     <<ColEntry(PkKey(t), <<OrEntry(<<<<OpEntry("eq", Num(1))>>,
                                      <<OpEntry("eq", Num(2))>>>>)>>)>>,
     <<ColEntry(OtherKey(t), <<OpEntry("eq", Num(1)),
                               OrEntry(<<<<OpEntry("gt", Num(1))>>>>)>>)>>}

WhereSiblings(t) == {ColEntry(PkKey(t), <<OpEntry("eq", Num(1))>>),
                     NullColEntry(OtherKey(t))}

WhereOrsOver(t, base) ==
    {<<WhereOr(<<a>>)>> : a \in base}
        \cup {<<WhereOr(<<a, b>>)>> : a \in base, b \in {Eq(PkKey(t), Num(2)), <<>>}}
        \cup {<<e, WhereOr(<<a>>)>> : a \in base, e \in WhereSiblings(t)}
        \cup {<<WhereOr(<<a>>), e>> : a \in base, e \in WhereSiblings(t)}

RECURSIVE WhereVariants(_, _)
WhereVariants(t, d) ==
    IF d = 0 THEN WhereSeeds(t)
    ELSE WhereSeeds(t) \cup WhereOrsOver(t, WhereVariants(t, d - 1))

WhereInputs(t) == WhereLeaves(t, MaxDepth) \cup WhereVariants(t, MaxDepth)

FilterInput(t, where) == [t |-> t, where |-> where]

InitFilter ==
    /\ db = [t \in TableNames |-> {}]
    /\ pc = "idle"
    /\ op = NoOp
    /\ log = <<>>
    /\ result = NoResult
    /\ written = <<>>
    /\ snapshot = [t \in TableNames |-> {}]
    /\ interfered = FALSE
    /\ fault = NoError
    /\ input \in UNION {{FilterInput(t, w) : w \in WhereInputs(t)} : t \in TableNames}
    /\ output = NoInput
    /\ ToolsIdle

\* where = buildWhereClause(tableInfo, args.where)
CompileFilter ==
    /\ pc = "idle"
    /\ pc' = "compiled"
    /\ output' = buildWhereClause(input.t, input.where)
    /\ UNCHANGED tools
    /\ UNCHANGED <<db, op, log, result, written, snapshot, interfered, fault, input>>

NextFilter == CompileFilter

SpecFilter == InitFilter /\ [][NextFilter]_vars

\* ------------------------------------------------------------------------
\* The order compiler on its own: buildOrderByClause applied to one order
\* input, an object with at most one entry per key, the keys naming the
\* table's columns or no column ("ghost"), in every insertion order.
\* ------------------------------------------------------------------------
MaxPriority == 2

Directions == {"asc", "desc"}
OrderKeys(t) == DOMAIN Columns(t) \cup {"ghost"}

Injective(f) == \A i, j \in DOMAIN f : f[i] = f[j] => i = j

OrderEntriesOf(col) ==
    {OrderEntry(col, d, p) : d \in Directions, p \in 0..MaxPriority}

\* The objects with the keys names[1..Len(names)], inserted in that order.
OrdersOver(names) ==
    {o \in [1..Len(names) -> UNION {OrderEntriesOf(c) : c \in Range(names)}] :
        \A i \in 1..Len(names) : o[i].columnName = names[i]}

OrderInputs(t) ==
    UNION {OrdersOver(names) :
             names \in {f \in UNION {[1..n -> OrderKeys(t)] : n \in 0..3} :
                          Injective(f)}}

OrderInput(t, orderBy) == [t |-> t, orderBy |-> orderBy]

InitOrder ==
    /\ db = [t \in TableNames |-> {}]
    /\ pc = "idle"
    /\ op = NoOp
    /\ log = <<>>
    /\ result = NoResult
    /\ written = <<>>
    /\ snapshot = [t \in TableNames |-> {}]
    /\ interfered = FALSE
    /\ fault = NoError
    /\ input \in UNION {{OrderInput(t, o) : o \in OrderInputs(t)} : t \in TableNames}
    /\ output = NoInput
    /\ ToolsIdle

\* orderBy = buildOrderByClause(tableInfo, args.orderBy)
CompileOrder ==
    /\ pc = "idle"
    /\ pc' = "ordered"
    /\ output' = buildOrderByClause(input.t, input.orderBy)
    /\ UNCHANGED tools
    /\ UNCHANGED <<db, op, log, result, written, snapshot, interfered, fault, input>>

NextOrder == CompileOrder

SpecOrder == InitOrder /\ [][NextOrder]_vars

\* ------------------------------------------------------------------------
\* The relation planner on its own: extractRelationsParams over
\* requested-field trees of the whole schema, under a configured
\* relationsDepthLimit.
\* ------------------------------------------------------------------------
MaxPlanDepth == 2

\* What one occurrence of a table in a query may ask of it: its arguments and
\* its own fields (columns and fields that are no column of the table).
FullArgs(t) ==
    [where |-> <<ColEntry(PkKey(t), <<OpEntry("eq", Num(1))>>)>>,
     orderBy |-> <<OrderEntry(ColumnKeys(t)[2], "desc", 1)>>,
     limit |-> Num(1),
     offset |-> Num(1)]

Shapes(t) ==
    {Field(NoArgs, PkKey(t) :> Leaf),
     Field(FullArgs(t), (ColumnKeys(t)[2] :> Leaf) @@ ("__typename" :> Leaf))}

\* The requested-field trees under a table, at most d relations deep: each
\* of the table's two relations is absent or requested with a tree of its
\* target table.
Graft(shapes, first, second) ==
    {Field(s.args, s.fields @@ f @@ g) : s \in shapes, f \in first, g \in second}

\* The trees under a table whose first relation goes d levels deep and
\* whose second relation asks for columns only.
RECURSIVE Chains(_, _)
Chains(t, d) ==
    IF d = 0 THEN Shapes(t)
    ELSE Graft(Shapes(t),
               {<<>>} \cup {RelationKeys(t)[1] :> b :
                   b \in Chains(Relations(t)[RelationKeys(t)[1]].targetTableName,
                                d - 1)},
               {<<>>} \cup {RelationKeys(t)[2] :> b :
                   b \in Shapes(Relations(t)[RelationKeys(t)[2]].targetTableName)})

\* The requested-field trees under a root table, at most d relations deep:
\* each of the table's two relations is absent or requested with a tree of
\* its target table, the second one level deep at most.
Branches(t, d) ==
    Graft(Shapes(t),
          {<<>>} \cup {RelationKeys(t)[1] :> b :
              b \in Chains(Relations(t)[RelationKeys(t)[1]].targetTableName,
                           d - 1)},
          {<<>>} \cup {RelationKeys(t)[2] :> b :
              b \in Chains(Relations(t)[RelationKeys(t)[2]].targetTableName, 1)})

\* The values of the build option relationsDepthLimit.
DepthLimits == 1..MaxPlanDepth

PlanInput(t, fields, limit) ==
    [t |-> t, fields |-> fields, relationsDepthLimit |-> limit]

InitPlan ==
    /\ db = [t \in TableNames |-> {}]
    /\ pc = "idle"
    /\ op = NoOp
    /\ log = <<>>
    /\ result = NoResult
    /\ written = <<>>
    /\ snapshot = [t \in TableNames |-> {}]
    /\ interfered = FALSE
    /\ fault = NoError
    /\ input \in UNION {{PlanInput(t, b.fields, limit) :
                            b \in Branches(t, MaxPlanDepth),
                            limit \in DepthLimits} : t \in SchemaTables}
    /\ output = NoInput
    /\ ToolsIdle

\* columns: extractSelectedColumns(fields, tableInfo),
\* with: extractRelationsParams(relationMap, tables, tableName, fields)
PlanRelations ==
    /\ pc = "idle"
    /\ pc' = "planned"
    /\ \E with \in {extractRelationsParams(input.t, input.fields)} :
          output' = [err |-> with.err, plan |-> with.plan,
                     columns |-> extractSelectedColumns(input.fields, input.t)]
    /\ UNCHANGED tools
    /\ UNCHANGED <<db, op, log, result, written, snapshot, interfered, fault, input>>

NextPlan == PlanRelations

SpecPlan == InitPlan /\ [][NextPlan]_vars

\* ------------------------------------------------------------------------
\* The planner's recursion, one call of extractRelationsParams per step:
\* the pending calls are kept on a stack, each with its table, its fields
\* and its nesting level.
\* ------------------------------------------------------------------------
PlannerCall(t, fields, level) == [t |-> t, fields |-> fields, level |-> level]

\* A planner that recurses into every relation declared on the table,
\* requested or not.
nestedCallsDeclared(t, fields, level) ==
    [i \in 1..Len(RelationKeys(t)) |->
        PlannerCall(Relations(t)[RelationKeys(t)[i]].targetTableName,
                    IF RelationKeys(t)[i] \in DOMAIN fields
                    THEN fields[RelationKeys(t)[i]].fields
                    ELSE <<>>,
                    level + 1)]

\* The recursive calls one call makes: one per relation of the table, in
\* the order of the relation map, that the fields request.
nestedCalls(t, fields, level) ==
    LET requested == SelectSeq(RelationKeys(t), LAMBDA r : r \in DOMAIN fields)
    IN [i \in 1..Len(requested) |->
           PlannerCall(Relations(t)[requested[i]].targetTableName,
                       fields[requested[i]].fields, level + 1)]

InitWalk ==
    /\ db = [t \in TableNames |-> {}]
    /\ pc = "idle"
    /\ op = NoOp
    /\ log = <<>>
    /\ result = NoResult
    /\ written = <<>>
    /\ snapshot = [t \in TableNames |-> {}]
    /\ interfered = FALSE
    /\ fault = NoError
    /\ input \in UNION {{PlanInput(t, b.fields, MaxPlanDepth) :
                            b \in Branches(t, MaxPlanDepth)} : t \in SchemaTables}
    /\ output = NoInput
    /\ ToolsIdle

\* The resolver calls extractRelationsParams on the root table.
StartWalk ==
    /\ pc = "idle"
    /\ pc' = "walking"
    /\ output' = [stack |-> <<PlannerCall(input.t, input.fields, 0)>>,
                  depth |-> 0, calls |-> 0]
    /\ UNCHANGED tools
    /\ UNCHANGED <<db, op, log, result, written, snapshot, interfered, fault, input>>

\* The call on top of the stack runs its loop: it emits a record per
\* requested relation and recurses for each.  No tree of the inputs nests
\* relations deeper than MaxPlanDepth.
WalkStep ==
    /\ pc = "walking"
    /\ output.stack # <<>>
    /\ Head(output.stack).level <= MaxPlanDepth
    /\ \E call \in {Head(output.stack)} :
          output' = [stack |-> nestedCalls(call.t, call.fields, call.level)
                                  \o Tail(output.stack),
                     depth |-> IF call.level > output.depth THEN call.level
                               ELSE output.depth,
                     calls |-> output.calls + 1]
    /\ UNCHANGED tools
    /\ UNCHANGED <<db, pc, op, log, result, written, snapshot, interfered, fault,
                   input>>

\* Every call has returned: the with-object is handed to the resolver.
EndWalk ==
    /\ pc = "walking"
    /\ output.stack = <<>>
    /\ pc' = "walked"
    /\ UNCHANGED tools
    /\ UNCHANGED <<db, op, log, result, written, snapshot, interfered, fault, input,
                   output>>

NextWalk ==
    \/ StartWalk
    \/ WalkStep
    \/ EndWalk

\* The planner runs synchronously: a call that can proceed does.
SpecWalk == InitWalk /\ [][NextWalk]_vars /\ WF_vars(NextWalk)

\* ------------------------------------------------------------------------
\* The build entry point: buildSchemaSDL over the tables of a schema and an
\* optional configuration.  The type-definition text is kept as the root
\* fields it declares per root type; the table, filter and input types that
\* generateTypeDefs declares are left out.
\* ------------------------------------------------------------------------
capitalize(s) ==
    CASE s = "user" -> "User"
      [] s = "post" -> "Post"
      [] s = "comment" -> "Comment"
      [] s = "id" -> "Id"
      [] s = "data" -> "Data"
      [] OTHER -> s

\* A column as generateMutations looks at it: its storage name and whether
\* primaryKey() was called on it.
BuildColumn(name, primary) == [name |-> name, primary |-> primary]

\* The ways a table declares its first column: as its primary key, as a
\* plain column stored as "id", or as a plain column of another name.
KeyKinds == {"primary", "idNamed", "none"}

KeyColumn(kind) ==
    CASE kind = "primary" -> BuildColumn("key", TRUE)
      [] kind = "idNamed" -> BuildColumn("id", FALSE)
      [] OTHER -> BuildColumn("label", FALSE)

BuildTable(name, kind) ==
    [name |-> name, columns |-> <<KeyColumn(kind), BuildColumn("text", FALSE)>>]

BuildOrder == <<"user", "post", "comment">>

\* The schemas: any of the three tables, in declaration order, each with
\* one of the key declarations.
RECURSIVE SchemasFrom(_)
SchemasFrom(i) ==
    IF i > Len(BuildOrder) THEN {<<>>}
    ELSE LET rest == SchemasFrom(i + 1)
         IN rest \cup {<<BuildTable(BuildOrder[i], kind)>> \o r :
                          kind \in KeyKinds, r \in rest}

\* config?.mutations: the configuration or the option absent, or the option
\* set to true or false.
MutationToggles == {Undefined, True, False}

BuildInput(tables, mutations) == [tables |-> tables, config |-> [mutations |-> mutations]]

DeclaredField(name, kind, t) == [name |-> name, kind |-> kind, table |-> t]
Resolver(kind, t) == [kind |-> kind, table |-> t]

\* type Query { ... }: one field per table, named after the table.
generateQueryTypeDefs(tables) ==
    [i \in 1..Len(tables) |->
        DeclaredField(tables[i].name, "findMany", tables[i].name)]

\* type Mutation { ... }: insert, update and delete field per table, named
\* by the verb and the capitalized table name.
RECURSIVE generateMutationTypeDefs(_)
generateMutationTypeDefs(tables) ==
    IF tables = <<>> THEN <<>>
    ELSE LET tableName == Head(tables).name
             typeName == capitalize(tableName)
         IN <<DeclaredField("insert" \o typeName, "insertMany", tableName),
              DeclaredField("update" \o typeName, "updateMany", tableName),
              DeclaredField("delete" \o typeName, "deleteMany", tableName)>>
            \o generateMutationTypeDefs(Tail(tables))

RECURSIVE generateQueries(_)
generateQueries(tables) ==
    IF tables = <<>> THEN <<>>
    ELSE LET tableName == Head(tables).name
         IN (tableName \o "FindMany" :> Resolver("findMany", tableName))
            @@ (tableName \o "FindFirst" :> Resolver("findFirst", tableName))
            @@ generateQueries(Tail(tables))

\* Object.values(tableInfo.columns).find(col => col.primary || col.name === "id")
HasPrimaryKeyColumn(table) ==
    \E i \in 1..Len(table.columns) :
        table.columns[i].primary \/ table.columns[i].name = "id"

BuildError(tableName) ==
    [kind |-> "no_primary_key", name |-> tableName, op |-> "generateMutations"]

RECURSIVE mutationResolvers(_)
mutationResolvers(tables) ==
    IF tables = <<>> THEN <<>>
    ELSE LET tableName == Head(tables).name
         IN (tableName \o "InsertMany" :> Resolver("insertMany", tableName))
            @@ (tableName \o "UpdateMany" :> Resolver("updateMany", tableName))
            @@ (tableName \o "DeleteMany" :> Resolver("deleteMany", tableName))
            @@ mutationResolvers(Tail(tables))

\* The loop over the tables throws at the first one without a primary key
\* column; otherwise the function returns an object holding the resolver
\* map under the key mutations.
generateMutations(tables) ==
    LET missing == {i \in 1..Len(tables) : ~HasPrimaryKeyColumn(tables[i])}
    IN IF missing # {}
       THEN [err |-> BuildError(tables[CHOOSE i \in missing :
                                           \A j \in missing : i <= j].name),
             value |-> <<>>]
       ELSE [err |-> NoError,
             value |-> [mutations |-> mutationResolvers(tables),
                        deleteResultResolvers |-> <<>>]]

BuildThrow(err) == [err |-> err, typeDefs |-> <<>>, resolvers |-> <<>>]

\* The config parameter is not read: the Mutation type is always pushed and
\* generateMutations always called, its return value becoming
\* resolvers.Mutation.
buildSchemaSDL(tables, config) ==
    LET mutations == generateMutations(tables)
    IN IF Failed(mutations) THEN BuildThrow(mutations.err)
       ELSE [err |-> NoError,
             typeDefs |-> [Query |-> generateQueryTypeDefs(tables),
                           Mutation |-> generateMutationTypeDefs(tables)],
             resolvers |-> [Query |-> generateQueries(tables),
                            Mutation |-> mutations.value]]

InitBuild ==
    /\ db = [t \in TableNames |-> {}]
    /\ pc = "idle"
    /\ op = NoOp
    /\ log = <<>>
    /\ result = NoResult
    /\ written = <<>>
    /\ snapshot = [t \in TableNames |-> {}]
    /\ interfered = FALSE
    /\ fault = NoError
    /\ input \in {BuildInput(tables, m) :
                    tables \in SchemasFrom(1), m \in MutationToggles}
    /\ output = NoInput
    /\ ToolsIdle

\* const { typeDefs, resolvers } = buildSchemaSDL(db, config)
Build ==
    /\ pc = "idle"
    /\ pc' = "built"
    /\ output' = buildSchemaSDL(input.tables, input.config)
    /\ UNCHANGED tools
    /\ UNCHANGED <<db, op, log, result, written, snapshot, interfered, fault, input>>

NextBuild == Build

SpecBuild == InitBuild /\ [][NextBuild]_vars

\* ------------------------------------------------------------------------
\* The type definitions: columnToSDL and generateTypeDefs
\* ------------------------------------------------------------------------
\* A GraphQL type as columnToSDL writes it: a name, in a list ("[Int!]")
\* or bare ("Int").
SdlType(name, list) == [name |-> name, list |-> list]

\* typeStr.replace(/[^a-zA-Z0-9]/g, ""): brackets and bangs are dropped,
\* the letters of the name stay.
normalizedType(typeStr) == typeStr.name

filterTypeName(typeStr) == normalizedType(typeStr) \o "FieldFilter"

\* A column as columnToSDL looks at it.
TypedColumn(dataType, columnType, enumValues, customGraphqlType) ==
    [dataType |-> dataType, columnType |-> columnType,
     enumValues |-> enumValues, customGraphqlType |-> customGraphqlType]

ColumnOf(kind) ==
    CASE kind = "int" -> TypedColumn("number", "SQLiteInteger", <<>>, "")
      [] kind = "real" -> TypedColumn("number", "SQLiteReal", <<>>, "")
      [] kind = "text" -> TypedColumn("string", "SQLiteText", <<>>, "")
      [] kind = "enum" -> TypedColumn("string", "SQLiteText", <<"a", "b">>, "")
      [] kind = "boolean" -> TypedColumn("boolean", "SQLiteBoolean", <<>>, "")
      [] kind = "json" -> TypedColumn("json", "SQLiteTextJson", <<>>, "")
      [] kind = "date" -> TypedColumn("date", "SQLiteTimestamp", <<>>, "")
      [] kind = "bigint" -> TypedColumn("bigint", "SQLiteBigInt", <<>>, "")
      [] kind = "buffer" -> TypedColumn("buffer", "SQLiteBlobBuffer", <<>>, "")
      [] kind = "vector" -> TypedColumn("array", "PgVector", <<>>, "")
      [] kind = "array" -> TypedColumn("array", "PgArray", <<>>, "")
      [] kind = "custom" -> TypedColumn("custom", "Point", <<>>, "")
      [] kind = "opaque" -> TypedColumn("custom", "", <<>>, "")
      [] OTHER -> TypedColumn("string", "SQLiteText", <<>>, "ULID")

IntegerColumnTypes ==
    {"PgInteger", "PgSerial", "MySqlInt", "MySqlSerial", "SQLiteInteger"}

\* const customScalars, enumDefinitions, requiredFieldFilters,
\* foreignKeyTypes: the collections of the module, empty.
EmptyTracking ==
    [customScalars |-> {}, enumDefinitions |-> <<>>,
     requiredFieldFilters |-> <<>>, foreignKeyTypes |-> <<>>]

\* The collections as they are carried into the next call.
keepTracking(tracking) == tracking

\* customScalars.clear(); enumDefinitions.clear();
\* requiredFieldFilters.clear(); foreignKeyTypes.clear()
resetTracking(tracking) == EmptyTracking

\* columnToSDL(column, columnName, tableName, true): the type of the column
\* and the collections after the call.
columnToSDL(column, columnName, tableName, tracking) ==
    LET key == tableName \o "." \o columnName
        enumName == capitalize(tableName) \o capitalize(columnName) \o "Enum"
        plain(name, list) == [type |-> SdlType(name, list), tracking |-> tracking]
        scalar(name) ==
            [type |-> SdlType(name, FALSE),
             tracking |-> [tracking EXCEPT !.customScalars = @ \cup {name}]]
    IN IF column.customGraphqlType # ""
       THEN plain(column.customGraphqlType, FALSE)
       ELSE IF key \in DOMAIN tracking.foreignKeyTypes
       THEN plain(tracking.foreignKeyTypes[key], FALSE)
       ELSE CASE column.dataType = "boolean" -> plain("Boolean", FALSE)
              [] column.dataType = "json" -> scalar("JSON")
              [] column.dataType = "date" -> scalar("Date")
              [] column.dataType = "string" ->
                   IF column.enumValues # <<>>
                   THEN [type |-> SdlType(enumName, FALSE),
                         tracking |->
                           [tracking EXCEPT !.enumDefinitions =
                              IF enumName \in DOMAIN @ THEN @
                              ELSE @ @@ (enumName :> column.enumValues)]]
                   ELSE plain("String", FALSE)
              [] column.dataType = "bigint" -> scalar("BigInt")
              [] column.dataType = "number" ->
                   IF column.columnType \in IntegerColumnTypes
                   THEN plain("Int", FALSE)
                   ELSE plain("Float", FALSE)
              [] column.dataType = "buffer" -> plain("Int", TRUE)
              [] column.dataType = "array" ->
                   IF column.columnType \in {"PgVector", "PgGeometry"}
                   THEN plain("Float", TRUE)
                   ELSE scalar(capitalize(tableName) \o capitalize(columnName)
                                 \o "Array")
              [] OTHER ->
                   IF column.columnType # ""
                   THEN scalar(column.columnType)
                   ELSE scalar(capitalize(tableName) \o capitalize(columnName))

\* A table of the schema: its columns by property name, in declaration
\* order.
TypedTable(name, columns) == [name |-> name, columns |-> columns]
Property(key, column) == [key |-> key, column |-> column]

\* A one-relation: the column `field` of `table` references the column
\* `reference` of `target`.
OneRelation(table, field, target, reference) ==
    [table |-> table, field |-> field, target |-> target, reference |-> reference]

ColumnsNamed(tables, tableName, columnName) ==
    {p.column : p \in {q \in UNION {Range(tbl.columns) :
                                      tbl \in {u \in Range(tables) : u.name = tableName}} :
                         q.key = columnName}}

\* First pass: the foreign key of a one-relation takes the custom type of
\* the column it references, when it has none of its own.
RECURSIVE inferForeignKeyTypes(_, _, _)
inferForeignKeyTypes(tables, relations, tracking) ==
    IF relations = <<>> THEN tracking
    ELSE LET r == Head(relations)
             foreignKeyColumn == ColumnsNamed(tables, r.table, r.field)
             referencedColumn == ColumnsNamed(tables, r.target, r.reference)
             inferred ==
                 IF foreignKeyColumn = {} \/ referencedColumn = {} THEN tracking
                 ELSE LET fk == CHOOSE c \in foreignKeyColumn : TRUE
                          ref == CHOOSE c \in referencedColumn : TRUE
                      IN IF ref.customGraphqlType # "" /\ fk.customGraphqlType = ""
                         THEN [tracking EXCEPT !.foreignKeyTypes =
                                 (r.table \o "." \o r.field :> ref.customGraphqlType)
                                 @@ @]
                         ELSE tracking
         IN inferForeignKeyTypes(tables, Tail(relations), inferred)

\* requiredFieldFilters.add(JSON.stringify({ normalizedType, baseType })):
\* a set of strings, so a pair already asked for is not added again.
requireFieldFilter(tracking, typeStr) ==
    [tracking EXCEPT !.requiredFieldFilters =
        IF [normalizedType |-> normalizedType(typeStr), baseType |-> typeStr]
              \in Range(@)
        THEN @
        ELSE Append(@, [normalizedType |-> normalizedType(typeStr),
                        baseType |-> typeStr])]

\* updateFields.push(`${columnName}: ${typeStr}`);
\* whereFields.push(`${columnName}: ${filterTypeName}`)
pushFields(columnName, typeStr, rest) ==
    [tracking |-> rest.tracking,
     update |-> (columnName :> typeStr) @@ rest.update,
     where |-> (columnName :> filterTypeName(typeStr)) @@ rest.where]

\* The fields of one table: every column goes through columnToSDL; the
\* where field of a column names the filter of its normalized type and
\* asks for that filter with the column's type as base type.
RECURSIVE typeColumns(_, _, _)
RECURSIVE typeColumn(_, _, _)
typeColumn(tableName, columns, typed) ==
    pushFields(Head(columns).key, typed.type,
               typeColumns(tableName, Tail(columns),
                           requireFieldFilter(typed.tracking, typed.type)))

typeColumns(tableName, columns, tracking) ==
    IF columns = <<>>
    THEN [tracking |-> tracking, update |-> <<>>, where |-> <<>>]
    ELSE typeColumn(tableName, columns,
                    columnToSDL(Head(columns).column, Head(columns).key,
                                tableName, tracking))

\* for (const [tableName, tableInfo] of Object.entries(tables))
pushTable(tableName, fields, rest) ==
    [tracking |-> rest.tracking,
     update |-> (tableName :> fields.update) @@ rest.update,
     where |-> (tableName :> fields.where) @@ rest.where]

RECURSIVE typeTables(_, _)
RECURSIVE typeTable(_, _)
typeTable(tables, fields) ==
    pushTable(Head(tables).name, fields, typeTables(Tail(tables), fields.tracking))

typeTables(tables, tracking) ==
    IF tables = <<>>
    THEN [tracking |-> tracking, update |-> <<>>, where |-> <<>>]
    ELSE typeTable(tables, typeColumns(Head(tables).name, Head(tables).columns,
                                       tracking))

\* for (const filterInfoJson of requiredFieldFilters): a filter type is
\* declared on the first request for its name (filterTypesAdded) with that
\* request's base type; eq, ne, lt, lte, gt, gte are of the base type,
\* inArray and notInArray lists of it.
RECURSIVE fieldFilterTypes(_)
fieldFilterTypes(required) ==
    IF required = <<>> THEN <<>>
    ELSE (Head(required).normalizedType \o "FieldFilter" :> Head(required).baseType)
         @@ fieldFilterTypes(Tail(required))

\* The SDL of the collections after the passes: scalar declarations,
\* enum declarations, filter input types, and the update and where fields
\* of every table.
emitTypeDefs(typed) ==
    [tracking |-> typed.tracking,
     sdl |-> [scalars |-> typed.tracking.customScalars,
              enums |-> typed.tracking.enumDefinitions,
              filters |-> fieldFilterTypes(typed.tracking.requiredFieldFilters),
              update |-> typed.update,
              where |-> typed.where]]

generateTypeDefs(tables, relations, tracking) ==
    emitTypeDefs(typeTables(tables,
                   inferForeignKeyTypes(tables, relations,
                                        resetTracking(tracking))))

\* The schemas: table user with columns id and data, and possibly table
\* post with one column data, which may reference user.id.
IdKinds == {"int", "text", "date", "override"}
DataKinds == {"buffer", "json", "custom", "enum", "vector", "array", "opaque",
              "bigint"}
PostKinds == {"custom", "enum"}

TypedSchema(tables, relations) == [tables |-> tables, relations |-> relations]

UserTables ==
    {<<TypedTable("user", <<Property("id", ColumnOf(i)),
                            Property("data", ColumnOf(d))>>)>> :
        i \in IdKinds, d \in DataKinds}

PostTables == {<<TypedTable("post", <<Property("data", ColumnOf(k))>>)>> :
                  k \in PostKinds}

TypedSchemas ==
    {TypedSchema(u, <<>>) : u \in UserTables}
    \cup {TypedSchema(u \o p, r) :
            u \in UserTables, p \in PostTables,
            r \in {<<>>, <<OneRelation("post", "data", "user", "id")>>}}

\* The names a build declares: its scalars and its enums.
Declared(sdl) == sdl.scalars \cup DOMAIN sdl.enums

InitTypes ==
    /\ db = [t \in TableNames |-> {}]
    /\ pc = "idle"
    /\ op = NoOp
    /\ log = <<>>
    /\ result = NoResult
    /\ written = <<>>
    /\ snapshot = [t \in TableNames |-> {}]
    /\ interfered = FALSE
    /\ fault = NoError
    /\ input = NoInput
    /\ output = NoInput
    /\ ToolsIdle

\* const typeDefs = generateTypeDefs(tables, relations): a build, the
\* first or one after earlier builds in the same process. The names the
\* build before declared are kept beside the schema.
GenerateTypeDefs ==
    /\ pc \in {"idle", "generated"}
    /\ pc' = "generated"
    /\ \E s \in TypedSchemas :
       \E g \in {generateTypeDefs(s.tables, s.relations, globals)} :
          /\ input' = [tables |-> s.tables, relations |-> s.relations,
                       before |-> IF pc = "idle" THEN {} ELSE Declared(output)]
          /\ output' = g.sdl
          /\ globals' = g.tracking
    /\ UNCHANGED <<exportStore, promises, wrapped>>
    /\ UNCHANGED <<db, op, log, result, written, snapshot, interfered, fault>>

NextTypes == GenerateTypeDefs

SpecTypes == InitTypes /\ [][NextTypes]_vars

\* ------------------------------------------------------------------------
\* The export tool: ExportStore and the export middleware
\* ------------------------------------------------------------------------
ExportNames == {"a", "b"}

\* The values a resolver exports: null among them.
ExportValues == {Null, Num(1)}

\* new Error(`Timeout waiting for export variable "${name}"`)
TimeoutError(name) == "Timeout waiting for export variable \"" \o name \o "\""

\* The promise of one waitFor call: the name waited for, whether it is
\* pending, resolved or rejected, what it settled with, whether its timer
\* is still to fire, and how often resolve or reject were called on it.
Promise(name, state, value, timer, calls) ==
    [name |-> name, state |-> state, value |-> value, error |-> "",
     timer |-> timer, calls |-> calls]

\* resolve(value) of a promise: only the first call settles it.
resolve(p, value) ==
    [p EXCEPT !.state = IF p.state = "pending" THEN "resolved" ELSE @,
              !.value = IF p.state = "pending" THEN value ELSE @,
              !.calls = @ + 1]

\* reject(error) of a promise: only the first call settles it.
reject(p, error) ==
    [p EXCEPT !.state = IF p.state = "pending" THEN "rejected" ELSE @,
              !.error = IF p.state = "pending" THEN error ELSE @,
              !.calls = @ + 1]

callbacksOf(es, name) ==
    IF name \in DOMAIN es.pending THEN es.pending[name] ELSE <<>>

\* set(name, value): store the value, resolve the callbacks pending for
\* the name, delete the name's pending list.
set(es, ps, name, value) ==
    [store |-> [store |-> (name :> value) @@ es.store,
                pending |-> [n \in DOMAIN es.pending \ {name} |-> es.pending[n]]],
     promises |-> [i \in DOMAIN ps |->
                     IF i \in Range(callbacksOf(es, name))
                     THEN resolve(ps[i], value) ELSE ps[i]]]

\* waitFor(name): the stored value at once when the name is stored;
\* otherwise a promise whose resolve is pushed on the name's pending list
\* and whose timer is started.
waitFor(es, ps, name) ==
    IF name \in DOMAIN es.store
    THEN [store |-> es,
          promises |-> Append(ps, Promise(name, "resolved", es.store[name], FALSE, 1))]
    ELSE [store |-> [es EXCEPT !.pending =
                       (name :> Append(callbacksOf(es, name), Len(ps) + 1)) @@ @],
          promises |-> Append(ps, Promise(name, "pending", Undefined, TRUE, 0))]

\* callbacks.splice(index, 1)
splice(callbacks, id) ==
    SelectSeq(callbacks, LAMBDA c : c # id)

\* The timer callback of promise id: when the name has a pending list and
\* the promise's resolve is on it, take it off and reject; otherwise
\* nothing.
timeoutElapsed(es, ps, id) ==
    IF /\ ps[id].name \in DOMAIN es.pending
       /\ id \in Range(es.pending[ps[id].name])
    THEN [store |-> [es EXCEPT !.pending[ps[id].name] = splice(@, id)],
          promises |-> [ps EXCEPT ![id] =
                          [reject(ps[id], TimeoutError(ps[id].name))
                             EXCEPT !.timer = FALSE]]]
    ELSE [store |-> es,
          promises |-> [ps EXCEPT ![id].timer = FALSE]]

\* clear(): this.store.clear(); this.pending.clear()
clear(es) == [store |-> <<>>, pending |-> <<>>]

\* The arguments of a field: values, strings, lists of values and strings,
\* and objects of any of these. A string is written as whether it starts
\* with "$_" and what follows.
ArgValue(v) == [k |-> "value", v |-> v, dollar |-> FALSE, rest |-> "", xs |-> <<>>]
ArgString(dollar, rest) ==
    [k |-> "string", v |-> Undefined, dollar |-> dollar, rest |-> rest, xs |-> <<>>]
ArgList(xs) == [k |-> "list", v |-> Undefined, dollar |-> FALSE, rest |-> "", xs |-> xs]
ArgObject(xs) == [k |-> "object", v |-> Undefined, dollar |-> FALSE, rest |-> "", xs |-> xs]

ExportVariable(name) == ArgString(TRUE, name)

\* typeof value === "string" && value.startsWith("$_") && value.length > 2
isExportVariable(value) ==
    value.k = "string" /\ value.dollar /\ value.rest # ""

\* value.slice(2)
getVariableName(value) == value.rest

RECURSIVE hasExportVariables(_)
hasExportVariables(args) ==
    \/ isExportVariable(args)
    \/ /\ args.k \in {"list", "object"}
       /\ \E i \in 1..Len(args.xs) : hasExportVariables(args.xs[i])

\* The entries of the arguments in the order resolveExportVariables comes
\* to them: the entries of an object one after the other, those of a
\* nested object in their place; a list is one entry, its items are waited
\* for together (Promise.all).
RECURSIVE entriesOf(_)
entriesOf(args) ==
    IF args.k # "object" THEN <<args>>
    ELSE IF args.xs = <<>> THEN <<>>
    ELSE entriesOf(Head(args.xs)) \o entriesOf(ArgObject(Tail(args.xs)))

\* The names one entry waits for, in order.
RECURSIVE variablesOf(_)
variablesOf(entry) ==
    IF isExportVariable(entry) THEN <<getVariableName(entry)>>
    ELSE IF entry.k = "list" /\ entry.xs # <<>>
    THEN variablesOf(Head(entry.xs)) \o variablesOf(ArgList(Tail(entry.xs)))
    ELSE <<>>

\* The entry with the awaited values in place of its variables.
RECURSIVE resolvedEntry(_, _)
resolvedEntry(entry, values) ==
    IF isExportVariable(entry) THEN ArgValue(Head(values))
    ELSE IF entry.k = "list" /\ entry.xs # <<>>
    THEN ArgList(<<resolvedEntry(Head(entry.xs), values)>>
                 \o resolvedEntry(ArgList(Tail(entry.xs)),
                                  SubSeq(values, Len(variablesOf(Head(entry.xs))) + 1,
                                         Len(values))).xs)
    ELSE entry

\* resolved[key] = ...: the arguments rebuilt from the resolved entries.
joinRebuilt(tree, tail) == [xs |-> <<tree>> \o tail.xs, rest |-> tail.rest]

RECURSIVE rebuild(_, _)
RECURSIVE rebuildAll(_, _)
RECURSIVE rebuildTail(_, _)
rebuildTail(xs, head) == joinRebuilt(head.tree, rebuildAll(Tail(xs), head.rest))

rebuildAll(xs, entries) ==
    IF xs = <<>> THEN [xs |-> <<>>, rest |-> entries]
    ELSE rebuildTail(xs, rebuild(Head(xs), entries))

rebuilt(all) == [tree |-> ArgObject(all.xs), rest |-> all.rest]

rebuild(args, entries) ==
    IF args.k = "object" THEN rebuilt(rebuildAll(args.xs, entries))
    ELSE [tree |-> Head(entries), rest |-> Tail(entries)]

\* for several names: one waitFor after the other in the same turn.
RECURSIVE waitForAll(_, _, _)
waitForAfter(waited, names) == waitForAll(waited.store, waited.promises, names)

waitForAll(es, ps, names) ==
    IF names = <<>> THEN [store |-> es, promises |-> ps]
    ELSE waitForAfter(waitFor(es, ps, Head(names)), Tail(names))

\* A call of the wrapped resolver of a field: the arguments, how far their
\* resolution is, the entries resolved so far, the promises awaited now,
\* and what the resolver proper was invoked with.
WrappedCall(args, stage, passed) ==
    [args |-> args, stage |-> stage, at |-> 1, done |-> <<>>, waits |-> <<>>,
     passed |-> passed, error |-> ""]

NotPassed == <<>>

\* The arguments of the calls.
WrappedArgs ==
    {ArgObject(<<ArgValue(Num(1))>>),
     ArgObject(<<ArgString(TRUE, "")>>),
     ArgObject(<<ArgList(<<ArgValue(Num(1)), ArgString(FALSE, "a")>>)>>),
     ArgObject(<<ExportVariable("a")>>),
     ArgObject(<<ExportVariable("a"), ExportVariable("b")>>),
     ArgObject(<<ArgList(<<ExportVariable("a"), ArgValue(Num(1)),
                           ExportVariable("b")>>)>>),
     ArgObject(<<ArgObject(<<ExportVariable("a")>>), ArgValue(Num(1))>>),
     ArgObject(<<ArgObject(<<ArgList(<<ExportVariable("b")>>)>>),
                 ExportVariable("a")>>)}

\* How many waitFor calls the resolution of the arguments makes at most.
RECURSIVE countVariables(_)
countVariables(entries) ==
    IF entries = <<>> THEN 0
    ELSE Len(variablesOf(Head(entries))) + countVariables(Tail(entries))

MostVariables ==
    CHOOSE n \in {countVariables(entriesOf(a)) : a \in WrappedArgs} :
        \A a \in WrappedArgs : countVariables(entriesOf(a)) <= n

\* A consumer outside the middleware calls waitFor while fewer than
\* MaxWaits promises exist.
MaxWaits == 1

PromiseIds == 1..(MaxWaits + MostVariables)

InitExport ==
    /\ db = [t \in TableNames |-> {}]
    /\ pc = "idle"
    /\ op = NoOp
    /\ log = <<>>
    /\ result = NoResult
    /\ written = <<>>
    /\ snapshot = [t \in TableNames |-> {}]
    /\ interfered = FALSE
    /\ fault = NoError
    /\ input = NoInput
    /\ output = NoInput
    /\ ToolsIdle

\* exportStore.set(name, value), by a resolver or by a test.
StoreSet(name, value) ==
    /\ \E r \in {set(exportStore, promises, name, value)} :
          /\ exportStore' = r.store
          /\ promises' = r.promises
    /\ UNCHANGED <<globals, wrapped>>
    /\ UNCHANGED <<db, pc, op, log, result, written, snapshot, interfered, fault, input, output>>

\* exportStore.waitFor(name), by a consumer outside the middleware.
StoreWaitFor(name) ==
    /\ Len(promises) < MaxWaits
    /\ \E r \in {waitFor(exportStore, promises, name)} :
          /\ exportStore' = r.store
          /\ promises' = r.promises
    /\ UNCHANGED <<globals, wrapped>>
    /\ UNCHANGED <<db, pc, op, log, result, written, snapshot, interfered, fault, input, output>>

\* setTimeout(() => { ... }, timeout): the timer of promise id fires.
TimerFires(id) ==
    /\ id \in DOMAIN promises
    /\ promises[id].timer
    /\ \E r \in {timeoutElapsed(exportStore, promises, id)} :
          /\ exportStore' = r.store
          /\ promises' = r.promises
    /\ UNCHANGED <<globals, wrapped>>
    /\ UNCHANGED <<db, pc, op, log, result, written, snapshot, interfered, fault, input, output>>

\* exportStore.clear()
StoreClear ==
    /\ exportStore' = clear(exportStore)
    /\ UNCHANGED <<globals, promises, wrapped>>
    /\ UNCHANGED <<db, pc, op, log, result, written, snapshot, interfered, fault, input, output>>

\* The wrapped resolver is called: without export variables in the
\* arguments the resolver proper is invoked with them in the same turn,
\* otherwise resolveExportVariables starts.
MiddlewareEnter ==
    /\ wrapped = <<>>
    /\ \E args \in WrappedArgs :
          wrapped' = IF hasExportVariables(args)
                     THEN WrappedCall(args, "resolving", NotPassed)
                     ELSE WrappedCall(args, "invoked", args)
    /\ UNCHANGED <<globals, exportStore, promises>>
    /\ UNCHANGED <<db, pc, op, log, result, written, snapshot, interfered, fault, input, output>>

\* resolveExportVariables comes to the next entry: an entry without
\* variables is copied, for the variables of the others waitFor is called;
\* after the last entry the resolver proper is invoked with the resolved
\* arguments.
ResolveEntry ==
    /\ wrapped # <<>>
    /\ wrapped.stage = "resolving"
    /\ \E entries \in {entriesOf(wrapped.args)} :
       IF wrapped.at > Len(entries)
       THEN /\ wrapped' = [wrapped EXCEPT
                             !.stage = "invoked",
                             !.passed = rebuild(wrapped.args, wrapped.done).tree]
            /\ UNCHANGED <<exportStore, promises>>
       ELSE IF variablesOf(entries[wrapped.at]) = <<>>
       THEN /\ wrapped' = [wrapped EXCEPT
                             !.done = Append(@, entries[wrapped.at]),
                             !.at = @ + 1]
            /\ UNCHANGED <<exportStore, promises>>
       ELSE \E r \in {waitForAll(exportStore, promises,
                                 variablesOf(entries[wrapped.at]))} :
            /\ exportStore' = r.store
            /\ promises' = r.promises
            /\ wrapped' = [wrapped EXCEPT
                             !.stage = "awaiting",
                             !.waits = [i \in 1..(Len(r.promises) - Len(promises))
                                          |-> Len(promises) + i]]
    /\ UNCHANGED globals
    /\ UNCHANGED <<db, pc, op, log, result, written, snapshot, interfered, fault, input, output>>

\* The await of the entry's promises ends: with a rejection the field
\* fails, with every promise resolved the entry is resolved.
AwaitEntry ==
    /\ wrapped # <<>>
    /\ wrapped.stage = "awaiting"
    /\ \/ \E i \in Range(wrapped.waits) :
             /\ promises[i].state = "rejected"
             /\ wrapped' = [wrapped EXCEPT
                              !.stage = "failed",
                              !.error = "Failed to resolve export variables: "
                                          \o promises[i].error]
       \/ /\ \A i \in Range(wrapped.waits) : promises[i].state = "resolved"
          /\ wrapped' = [wrapped EXCEPT
                           !.stage = "resolving",
                           !.waits = <<>>,
                           !.at = @ + 1,
                           !.done = Append(@,
                              resolvedEntry(entriesOf(wrapped.args)[wrapped.at],
                                 [k \in 1..Len(wrapped.waits) |->
                                    promises[wrapped.waits[k]].value]))]
    /\ UNCHANGED <<globals, exportStore, promises>>
    /\ UNCHANGED <<db, pc, op, log, result, written, snapshot, interfered, fault, input, output>>

\* The resolver proper returns: a result that is not null is exported
\* under the name of the field's @export directive, if it has one.
ExportResult ==
    /\ wrapped # <<>>
    /\ wrapped.stage = "invoked"
    /\ wrapped' = [wrapped EXCEPT !.stage = "returned"]
    /\ \E value \in ExportValues, selfExportName \in ExportNames \cup {""} :
       IF selfExportName # "" /\ value # Null
       THEN \E r \in {set(exportStore, promises, selfExportName, value)} :
               /\ exportStore' = r.store
               /\ promises' = r.promises
       ELSE UNCHANGED <<exportStore, promises>>
    /\ UNCHANGED globals
    /\ UNCHANGED <<db, pc, op, log, result, written, snapshot, interfered, fault, input, output>>

NextExport ==
    \/ \E name \in ExportNames, value \in ExportValues : StoreSet(name, value)
    \/ \E name \in ExportNames : StoreWaitFor(name)
    \/ \E id \in PromiseIds : TimerFires(id)
    \/ StoreClear
    \/ MiddlewareEnter
    \/ ResolveEntry
    \/ AwaitEntry
    \/ ExportResult

\* Timers fire, and a resolver that can go on does.
SpecExport ==
    /\ InitExport
    /\ [][NextExport]_vars
    /\ \A id \in PromiseIds : WF_vars(TimerFires(id))
    /\ WF_vars(ResolveEntry)
    /\ WF_vars(AwaitEntry)

\* ------------------------------------------------------------------------
\* Properties of the resolvers
\* ------------------------------------------------------------------------
Finished(kinds) == pc = "done" /\ op.kind \in kinds

\* The plan has a child plan for exactly the requested relations, at every
\* level of the requested-field tree.
RECURSIVE Covers(_, _, _)
Covers(plan, t, fields) ==
    /\ DOMAIN plan.with = DOMAIN fields \cap DOMAIN Relations(t)
    /\ \A rel \in DOMAIN plan.with :
          Covers(plan.with[rel], Relations(t)[rel].targetTableName,
                 fields[rel].fields)

RECURSIVE Answers(_, _)
Answers(rows, plan) ==
    \A i \in 1..Len(rows) :
        /\ DOMAIN rows[i].rels = DOMAIN plan.with
        /\ \A rel \in DOMAIN plan.with : Answers(rows[i].rels[rel], plan.with[rel])

\* C1: resolving a find-many or find-first root field submits exactly one
\* storage call, carrying one nested plan with a child plan for every
\* requested relation at every level; the returned rows carry their
\* relations from that one call, whatever the number of rows.  (A resolution
\* that ends with a validation error has submitted no call.)
C1_SingleStorageCall ==
    Finished({"findMany", "findFirst"}) =>
        /\ Len(log) <= 1
        /\ result.kind # "error" =>
              /\ Len(log) = 1
              /\ log[1].call = op.kind
              /\ log[1].table = op.table
              /\ Covers(log[1].plan, op.table, op.fields)
              /\ Answers(result.rows, log[1].plan)

C1_Witness ==
    /\ Finished({"findMany"})
    /\ Len(log) = 1
    /\ Len(result.rows) >= 2
    /\ \E rel \in DOMAIN log[1].plan.with :
          /\ DOMAIN log[1].plan.with[rel].with # {}
          /\ \E i \in 1..Len(result.rows) : Len(result.rows[i].rels[rel]) > 0

WrittenRows == Range(op.payload.list)

\* C2: insert-many with a non-empty value list submits one insert, then one
\* find-many whose filter is "primary key inArray <keys of the written
\* rows>" and whose projection and child plans are those of the caller's
\* sub-selection, and returns exactly the written rows, on every table.
C2_InsertReselectsWrittenRows ==
    ( /\ Finished({"insertMany"})
      /\ ~interfered
      /\ op.payload.present /\ Len(op.payload.list) > 0
      /\ ~Failed(insertReturning(snapshot, op.table, op.payload.list))
      /\ ~Failed(extractRelationsParams(op.table, op.fields)) )
    => /\ Len(log) = 2
       /\ log[1].call = "insert"
       /\ log[2].call = "findMany"
       /\ log[2].plan.where.op = "inArray"
       /\ log[2].plan.where.col = PkKey(op.table)
       /\ Range(log[2].plan.where.val.xs) = Keys(op.table, WrittenRows)
       /\ log[2].plan.columns = extractSelectedColumns(op.fields, op.table)
       /\ log[2].plan.with = extractRelationsParams(op.table, op.fields).plan
       /\ result.kind = "rows"
       /\ {result.rows[i].rid : i \in 1..Len(result.rows)}
              = Keys(op.table, WrittenRows)

MatchedAtStart ==
    {r \in snapshot[op.table] :
        Matches(buildWhereClause(op.table, op.args.where).sql, r)}

UpdatedRows == {ApplySet(op.payload.obj, r) : r \in MatchedAtStart}

\* C3: update-many with a non-empty set payload and a filter matching at
\* least one row, with no concurrent writer, submits one update with the
\* compiled filter, then one re-select by primary key, and returns exactly
\* the rows that matched, with their post-update values.
C3_UpdateReturnsMatchedRows ==
    ( /\ Finished({"updateMany"})
      /\ ~interfered
      /\ op.payload.present /\ DOMAIN op.payload.obj # {}
      /\ ~Failed(buildWhereClause(op.table, op.args.where))
      /\ MatchedAtStart # {}
      /\ ~Failed(updateReturning(snapshot, op.table, op.payload.obj,
                                 buildWhereClause(op.table, op.args.where).sql))
      /\ ~Failed(extractRelationsParams(op.table, op.fields)) )
    => /\ Len(log) = 2
       /\ log[1].call = "update"
       /\ log[1].plan.where = buildWhereClause(op.table, op.args.where).sql
       /\ log[2].call = "findMany"
       /\ log[2].plan.where.op = "inArray"
       /\ log[2].plan.where.col = PkKey(op.table)
       /\ result.kind = "rows"
       /\ Len(result.rows) = Cardinality(UpdatedRows)
       /\ \A i \in 1..Len(result.rows) :
             \E r \in UpdatedRows :
                /\ result.rows[i].rid = r[PkKey(op.table)]
                /\ \A c \in DOMAIN result.rows[i].cols :
                      result.rows[i].cols[c] = r[c]
                /\ DOMAIN result.rows[i].rels
                      = DOMAIN op.fields \cap DOMAIN Relations(op.table)

\* C4: delete-many removes exactly the rows that satisfy the compiled filter
\* and returns them as a list of rows with their column values; afterwards a
\* find-many on the key of a deleted row finds nothing, and the other rows
\* are still there.
C4_DeleteReturnsDeletedRows ==
    ( /\ Finished({"deleteMany", "deleteManyResult"})
      /\ ~Failed(buildWhereClause(op.table, op.args.where)) )
    => /\ db[op.table] = snapshot[op.table] \ MatchedAtStart
       /\ \A t \in TableNames \ {op.table} : db[t] = snapshot[t]
       /\ result.kind = "rows"
       /\ Len(result.rows) = Cardinality(MatchedAtStart)
       /\ {result.rows[i].cols : i \in 1..Len(result.rows)} = MatchedAtStart
       /\ \A r \in MatchedAtStart :
             createFindManyResolver(db, op.table,
                 [NoArgs EXCEPT !.where = Eq(PkKey(op.table), r[PkKey(op.table)])],
                 PkKey(op.table) :> Leaf).result = Rows(<<>>)

MatchingNow ==
    {r \in db[op.table] :
        Matches(buildWhereClause(op.table, op.args.where).sql, r)}

\* C5: find-first with well-formed arguments whose filter matches no row
\* returns an explicit null (no error, no empty list); when a row matches it
\* returns one row object, a row that matches.
C5_FindFirstNullOrRow ==
    ( /\ Finished({"findFirst"})
      /\ ~Failed(planQuery(op.table, op.args, op.fields)) )
    => /\ MatchingNow = {} => result = NullResult
       /\ MatchingNow # {} =>
             /\ result.kind = "row"
             /\ Len(result.rows) = 1
             /\ result.rows[1].rid \in Keys(op.table, MatchingNow)

C5_Witness ==
    /\ Finished({"findFirst"})
    /\ db[op.table] # {}
    /\ op.args.where # <<>>
    /\ MatchingNow = {}
    /\ result = NullResult

\* C10: insert-many with an absent or empty value list, and update-many with
\* an absent or empty set payload, end with the validation error of the
\* mutation, have submitted no storage call and leave the store unchanged.
C10_EmptyPayloadRejected ==
    /\ ( /\ Finished({"insertMany"})
         /\ (~op.payload.present \/ Len(op.payload.list) = 0) )
       => /\ result = Error(NoValuesInsert)
          /\ log = <<>>
          /\ db = snapshot
    /\ ( /\ Finished({"updateMany"})
         /\ (~op.payload.present \/ DOMAIN op.payload.obj = {}) )
       => /\ result = Error(NoValuesUpdate)
          /\ log = <<>>
          /\ db = snapshot

C10_Witness ==
    /\ Finished({"insertMany"})
    /\ op.payload = Values(<<>>)
    /\ db[op.table] # {}
    /\ result.kind = "error"
    /\ log = <<>>

\* ------------------------------------------------------------------------
\* Properties of the filter compiler
\* ------------------------------------------------------------------------
Compiled == pc = "compiled"

\* The node has OR set: the key is present with at least one element.
OrSet(node) == Len(OrListOf(node)) > 0

\* The table-level entry is one whose column filter belongs to the filter:
\* a non-null, non-empty value under a key naming a column of the table.
Present(t, e) == e.k # "OR" /\ ~e.isNull /\ Len(e.c) > 0 /\ HasColumn(t, e.k)

\* A column filter with OR set next to a sibling key, at any OR depth.
RECURSIVE ColConflict(_)
ColConflict(node) ==
    OrSet(node) /\ (\/ Len(node) > 1
                    \/ \E i \in 1..Len(OrListOf(node)) :
                           ColConflict(OrListOf(node)[i]))

\* The OR-with-sibling offences of a filter, as <<error kind, name>>.
RECURSIVE Conflicts(_, _)
Conflicts(t, w) ==
    IF OrSet(w)
    THEN (IF Len(w) > 1 THEN {<<"or_conflict_table", t>>} ELSE {})
            \cup UNION {Conflicts(t, OrListOf(w)[i]) : i \in 1..Len(OrListOf(w))}
    ELSE {<<"or_conflict_column", w[i].k>> :
            i \in {j \in 1..Len(w) : Present(t, w[j]) /\ ColConflict(w[j].c)}}

\* The operators of a column filter given an empty list, at any OR depth.
RECURSIVE ColEmptyLists(_)
ColEmptyLists(node) ==
    {node[i].k : i \in {j \in 1..Len(node) :
                          node[j].k \in ArrayOps /\ node[j].v = Arr(<<>>)}}
        \cup UNION {ColEmptyLists(OrListOf(node)[i]) : i \in 1..Len(OrListOf(node))}

\* The empty-list offences of a filter, as <<column, operator>>.
RECURSIVE EmptyLists(_, _)
EmptyLists(t, w) ==
    UNION {{<<w[i].k, o>> : o \in ColEmptyLists(w[i].c)} :
             i \in {j \in 1..Len(w) : Present(t, w[j])}}
        \cup UNION {EmptyLists(t, OrListOf(w)[i]) : i \in 1..Len(OrListOf(w))}

OrConflictKinds == {"or_conflict_table", "or_conflict_column"}

\* C6: a filter with a node that has OR set (at least one element) together
\* with any sibling key, at table level or in the filter of a column of the
\* table, at any depth of OR nesting, is rejected and no predicate is
\* produced: the table-level error names the table, the column-level error
\* names the column, and the error is one of these two unless the filter also
\* gives an empty list to inArray/notInArray.
C6_OrWithSiblingRejected ==
    Compiled =>
        /\ Conflicts(input.t, input.where) # {} =>
              Failed(output) /\ output.sql = NoFilter
        /\ output.err.kind \in OrConflictKinds =>
              <<output.err.kind, output.err.name>> \in Conflicts(input.t, input.where)
        /\ (Conflicts(input.t, input.where) # {}
                /\ EmptyLists(input.t, input.where) = {}) =>
              output.err.kind \in OrConflictKinds
        /\ (OrSet(input.where) /\ Len(input.where) > 1) =>
              output.err.kind = "or_conflict_table" /\ output.err.name = input.t

C6_Witness ==
    /\ Compiled
    /\ OrSet(input.where)
    /\ Len(input.where) = 1
    /\ output.err.kind = "or_conflict_column"
    /\ output.err.name = OtherKey(input.t)

\* The filter is one operator entry e of column col, alone or as the single
\* variant of single-variant OR lists at table level and at column level.
RECURSIVE ColWraps(_, _)
ColWraps(node, e) ==
    \/ node = <<e>>
    \/ /\ Len(node) = 1
       /\ Len(OrListOf(node)) = 1
       /\ ColWraps(OrListOf(node)[1], e)

RECURSIVE WhereWraps(_, _, _, _)
WhereWraps(t, w, col, e) ==
    /\ Len(w) = 1
    /\ \/ w[1].k = col /\ Present(t, w[1]) /\ ColWraps(w[1].c, e)
       \/ Len(OrListOf(w)) = 1 /\ WhereWraps(t, OrListOf(w)[1], col, e)

OperandLists == {<<Num(1)>>, <<Num(1), Num(2)>>}

\* C7: a filter that gives inArray or notInArray an empty list, for any
\* column of the table and at any depth of OR nesting, fails to compile and
\* produces no predicate; the empty-list error names such a column and its
\* operator, and it is the error raised unless the filter also has an OR next
\* to a sibling key.  Given a non-empty list the operator compiles to
\* (non-)membership of the column value in that list.
C7_EmptyListRejected ==
    Compiled =>
        /\ EmptyLists(input.t, input.where) # {} =>
              Failed(output) /\ output.sql = NoFilter
        /\ output.err.kind = "empty_array" =>
              <<output.err.name, output.err.op>> \in EmptyLists(input.t, input.where)
        /\ (EmptyLists(input.t, input.where) # {}
                /\ Conflicts(input.t, input.where) = {}) =>
              output.err.kind = "empty_array"
        /\ \A col \in DOMAIN Columns(input.t), k \in ArrayOps, xs \in OperandLists :
              WhereWraps(input.t, input.where, col, OpEntry(k, Arr(xs))) =>
                  /\ output = Ok(Sql(k, col, Arr(xs), <<>>))
                  /\ \A row \in RowsOf(input.t) :
                        row[col].t = "num" =>
                            (Holds(output.sql, row)
                                <=> ((k = "inArray") <=> (row[col] \in Range(xs))))

C7_Witness ==
    /\ Compiled
    /\ OrSet(input.where)
    /\ output.err = [kind |-> "empty_array", name |-> PkKey(input.t),
                     op |-> "inArray"]

\* An operator entry that specifies a comparison: a known operator whose
\* operand is neither null nor false.
Specified(e) == e.k \in OperatorNames /\ e.v # Null /\ e.v # False

\* The column filter compiles to "no filter": it specifies no operator, or
\* every variant of its OR does so.
RECURSIVE ColVacuous(_)
ColVacuous(node) ==
    IF OrSet(node)
    THEN \A i \in 1..Len(OrListOf(node)) : ColVacuous(OrListOf(node)[i])
    ELSE \A i \in 1..Len(node) : ~Specified(node[i])

\* The meaning of a column filter for the column value x: the conjunction of
\* its specified operators, or the disjunction of the OR variants that
\* constrain.
RECURSIVE ColMeaning(_, _)
ColMeaning(x, node) ==
    IF OrSet(node)
    THEN \/ ColVacuous(node)
         \/ \E i \in 1..Len(OrListOf(node)) :
               /\ ~ColVacuous(OrListOf(node)[i])
               /\ ColMeaning(x, OrListOf(node)[i])
    ELSE \A i \in 1..Len(node) :
             Specified(node[i]) => Compare(node[i].k, x, node[i].v)

RECURSIVE WhereVacuous(_, _)
WhereVacuous(t, w) ==
    IF OrSet(w)
    THEN \A i \in 1..Len(OrListOf(w)) : WhereVacuous(t, OrListOf(w)[i])
    ELSE \A i \in 1..Len(w) : Present(t, w[i]) => ColVacuous(w[i].c)

\* The meaning of a filter for a row: every present column's filter holds,
\* or at least one of the OR variants that constrain holds.
RECURSIVE WhereMeaning(_, _, _)
WhereMeaning(t, w, row) ==
    IF OrSet(w)
    THEN \/ WhereVacuous(t, w)
         \/ \E i \in 1..Len(OrListOf(w)) :
               /\ ~WhereVacuous(t, OrListOf(w)[i])
               /\ WhereMeaning(t, OrListOf(w)[i], row)
    ELSE \A i \in 1..Len(w) :
             Present(t, w[i]) => ColMeaning(row[w[i].k], w[i].c)

Ordered == pc = "ordered"

\* The input entries that name a column of the table.
Kept(t, orderBy) == {e \in Range(orderBy) : HasColumn(t, e.columnName)}

PriorityOf(orderBy, col) ==
    (CHOOSE e \in Range(orderBy) : e.columnName = col).priority

DistinctPriorities(orderBy) ==
    \A i, j \in 1..Len(orderBy) :
        orderBy[i].priority = orderBy[j].priority => i = j

InsertionOrders(orderBy) ==
    {[i \in 1..Len(orderBy) |-> orderBy[f[i]]] :
        f \in {g \in [1..Len(orderBy) -> 1..Len(orderBy)] : Injective(g)}}

\* C9: the order compiler emits one clause for each input entry that names a
\* column of the table and no other clause, each with the entry's own
\* direction, in ascending order of priority; with pairwise distinct
\* priorities every insertion order of the same entries compiles to the same
\* output; an empty input, or one whose entries all name absent columns,
\* compiles to "no explicit order".
C9_OrderByPriority ==
    Ordered =>
        /\ Range(output.clauses) =
              {OrderClause(e.columnName, e.direction) :
                  e \in Kept(input.t, input.orderBy)}
        /\ Len(output.clauses) = Cardinality(Kept(input.t, input.orderBy))
        /\ \A i, j \in 1..Len(output.clauses) :
              i < j => PriorityOf(input.orderBy, output.clauses[i].col)
                          <= PriorityOf(input.orderBy, output.clauses[j].col)
        /\ DistinctPriorities(input.orderBy) =>
              \A p \in InsertionOrders(input.orderBy) :
                  buildOrderByClause(input.t, p) = output
        /\ output.defined <=> Kept(input.t, input.orderBy) # {}
        /\ ~output.defined => output = NoOrder

C9_Witness ==
    /\ Ordered
    /\ Len(input.orderBy) = 3
    /\ DistinctPriorities(input.orderBy)
    /\ input.orderBy[1].columnName = PkKey(input.t)
    /\ input.orderBy[3].columnName = OtherKey(input.t)
    /\ input.orderBy[3].priority < input.orderBy[1].priority
    /\ output.defined
    /\ output.clauses = <<OrderClause(OtherKey(input.t), "desc"),
                          OrderClause(PkKey(input.t), "asc")>>

\* ------------------------------------------------------------------------
\* Properties of the planner inside the query resolvers
\* ------------------------------------------------------------------------
\* The arguments of some requested relation, at any level of the tree, do
\* not compile.
RECURSIVE TreeInvalid(_, _)
TreeInvalid(t, fields) ==
    \E rel \in DOMAIN fields \cap DOMAIN Relations(t) :
        \/ Failed(buildWhereClause(Relations(t)[rel].targetTableName,
                                   fields[rel].args.where))
        \/ TreeInvalid(Relations(t)[rel].targetTableName, fields[rel].fields)

\* The plan holds, at every level, the projection, the compiled filter and
\* order, the paging and a child plan per requested relation.
RECURSIVE PlanComplete(_, _, _, _)
PlanComplete(plan, t, args, fields) ==
    /\ plan.columns = {f \in DOMAIN fields : HasColumn(t, f)}
    /\ plan.where = buildWhereClause(t, args.where).sql
    /\ plan.orderBy = buildOrderByClause(t, args.orderBy)
    /\ plan.limit = args.limit
    /\ plan.offset = args.offset
    /\ DOMAIN plan.with = DOMAIN fields \cap DOMAIN Relations(t)
    /\ \A rel \in DOMAIN plan.with :
          PlanComplete(plan.with[rel], Relations(t)[rel].targetTableName,
                       fields[rel].args, fields[rel].fields)

RootArgs ==
    IF op.kind = "findFirst"
    THEN [op.args EXCEPT !.limit = Undefined, !.offset = Undefined]
    ELSE op.args

ValidationKinds ==
    {"empty_array", "or_conflict_column", "or_conflict_table"}

\* C11: a find-many or find-first whose arguments fail validation at any
\* level of the requested tree, in the root arguments or in those of a
\* nested relation, ends with that validation error and has submitted no
\* storage call; a storage call that was submitted carries the whole plan:
\* projection, compiled filter and order, paging and child plans at every
\* level.
C11_PlanBeforeStorageCall ==
    Finished({"findMany", "findFirst"}) =>
        /\ ( \/ Failed(buildWhereClause(op.table, op.args.where))
             \/ TreeInvalid(op.table, op.fields) ) =>
              /\ result.kind = "error"
              /\ result.err.kind \in ValidationKinds
              /\ log = <<>>
        /\ (result.kind = "error" /\ result.err.kind \in ValidationKinds) =>
              log = <<>>
        /\ \A i \in 1..Len(log) :
              PlanComplete(log[i].plan, op.table, RootArgs, op.fields)

C11_Witness ==
    /\ Finished({"findMany"})
    /\ db[op.table] # {}
    /\ ~Failed(buildWhereClause(op.table, op.args.where))
    /\ \A rel \in DOMAIN op.fields \cap DOMAIN Relations(op.table) :
          ~Failed(buildWhereClause(Relations(op.table)[rel].targetTableName,
                                   op.fields[rel].args.where))
    /\ TreeInvalid(op.table, op.fields)
    /\ result.kind = "error"
    /\ log = <<>>

\* ------------------------------------------------------------------------
\* Properties of the write / re-select window of the mutations
\* ------------------------------------------------------------------------
ResponseKeys == {result.rows[i].rid : i \in 1..Len(result.rows)}

\* The row of the store a response row shows: same key, same column values.
ShownIn(row, rows) ==
    \E r \in rows :
        /\ r[PkKey(op.table)] = row.rid
        /\ \A c \in DOMAIN row.cols : row.cols[c] = r[c]

\* C12: insert-many and update-many submit the write and the re-select as
\* two storage calls; once the write has returned it is in the store while
\* the re-select is still to be submitted, and the response shows the rows as
\* the store holds them at the re-select, not as the write left them: when
\* another writer acts in between, a written row it deleted is missing from
\* the response and a row it changed is shown with its values.
C12_ResponseShowsStoreAtReselect ==
    /\ pc = "reselect" =>
          /\ op.kind \in {"insertMany", "updateMany"}
          /\ Len(log) = 1
          /\ log[1].call \in {"insert", "update"}
          /\ result = NoResult
          /\ (op.kind = "insertMany" /\ ~interfered) =>
                WrittenRows \subseteq db[op.table]
    /\ (Finished({"insertMany", "updateMany"}) /\ result.kind = "rows") =>
          /\ Len(log) = 2
          /\ log[1].call \in {"insert", "update"}
          /\ log[2].call = "findMany"
          /\ \A i \in 1..Len(result.rows) : ShownIn(result.rows[i], db[op.table])

C12_Witness ==
    /\ Finished({"insertMany"})
    /\ interfered
    /\ result.kind = "rows"
    /\ op.table = "user"
    /\ Len(op.payload.list) = 2
    /\ ResponseKeys = Keys(op.table, WrittenRows)
    /\ \E i \in 1..Len(result.rows) : ~ShownIn(result.rows[i], WrittenRows)

\* ------------------------------------------------------------------------
\* Properties of the resolvers over a store that may throw
\* ------------------------------------------------------------------------
AllKinds ==
    {"findMany", "findFirst", "insertMany", "updateMany", "deleteMany",
     "deleteManyResult"}

Thrower == [findMany |-> {"findMany"}, findFirst |-> {"findFirst"},
            insertMany |-> {"insert", "findMany"},
            updateMany |-> {"update", "findMany"},
            deleteMany |-> {"delete"}, deleteManyResult |-> {"delete"}]

\* C13: when the store throws from a call of find-many, find-first,
\* insert-many, update-many or delete-many, that call is the last one the
\* resolver submits: it is not submitted again, a failed write is followed by
\* no re-select, and the resolver ends with an error carrying the message the
\* store threw.
C13_StorageFailureEndsOperation ==
    /\ pc = "reselect" => fault = NoError
    /\ (Finished(AllKinds) /\ fault # NoError) =>
          /\ result = Error(fault)
          /\ fault.op \in Thrower[op.kind]
          /\ Len(log) >= 1
          /\ log[Len(log)].call = fault.op
          /\ log[Len(log)].call \in {"insert", "update", "delete"} => Len(log) = 1
          /\ op.kind \in {"findMany", "findFirst"} => Len(log) = 1
          /\ Len(log) <= 2
          /\ Len(log) = 2 => log[1].call \in {"insert", "update"}
          /\ \A i \in 1..Len(log) : log[i].call = "findMany" => i = Len(log)

C13_Witness ==
    /\ Finished({"updateMany"})
    /\ fault = Failure("SQLITE_BUSY", "update")
    /\ MatchedAtStart # {}
    /\ Len(log) = 1
    /\ db = snapshot
    /\ result.err.name = "SQLITE_BUSY"

\* ------------------------------------------------------------------------
\* Further properties of the filter compiler
\* ------------------------------------------------------------------------
\* The comparisons a compiled predicate is made of.
RECURSIVE Atoms(_)
Atoms(sql) ==
    IF sql = NoFilter THEN {}
    ELSE IF sql.op \in {"and", "or"}
        THEN UNION {Atoms(sql.args[i]) : i \in 1..Len(sql.args)}
    ELSE {sql}

\* The comparison an operator entry of column col stands for.
AtomOf(col, e) ==
    Sql(e.k, col, IF e.k \in NullOps THEN Undefined ELSE e.v, <<>>)

SoleColumn ==
    /\ Len(input.where) = 1
    /\ Present(input.t, input.where[1])
    /\ ~OrSet(input.where[1].c)
    /\ ColEmptyLists(input.where[1].c) = {}

SpecifiedOf(node) == SelectSeq(node, Specified)

RECURSIVE NoEmptyJunction(_)
NoEmptyJunction(sql) ==
    sql.op \in {"and", "or"} =>
        /\ Len(sql.args) >= 2
        /\ \A i \in 1..Len(sql.args) : NoEmptyJunction(sql.args[i])

OnlyUnknownKeys ==
    \A i \in 1..Len(input.where) :
        input.where[i].k # "OR" /\ ~HasColumn(input.t, input.where[i].k)

Planned == pc = "planned"

\* Every child plan of the with-object, at every level, is the plan the
\* planner computes from that occurrence of the relation alone, its
\* siblings left out of the request.
RECURSIVE Isolated(_, _, _)
Isolated(with, t, fields) ==
    \A rel \in DOMAIN with :
        /\ with[rel] = extractRelationsParams(t, rel :> fields[rel]).plan[rel]
        /\ Isolated(with[rel].with, Relations(t)[rel].targetTableName,
                    fields[rel].fields)

\* C16: when relations are requested in several branches of one query, the
\* same relation name or the same target table among them, the child plan
\* of each occurrence holds exactly what was requested under that
\* occurrence: its own columns, filter, order, paging and child plans, and
\* nothing of a sibling or of another occurrence.
C16_BranchIsolation ==
    Planned =>
        /\ ~Failed(output)
        /\ DOMAIN output.plan = DOMAIN input.fields \cap DOMAIN Relations(input.t)
        /\ \A rel \in DOMAIN output.plan :
              PlanComplete(output.plan[rel],
                           Relations(input.t)[rel].targetTableName,
                           input.fields[rel].args, input.fields[rel].fields)
        /\ Isolated(output.plan, input.t, input.fields)

\* A comment whose post asks for its comments with arguments and whose user
\* asks for comments too, differently, and for nothing else below.
C16_Witness ==
    /\ Planned
    /\ input.t = "comment"
    /\ DOMAIN output.plan = {"post", "user"}
    /\ DOMAIN output.plan["post"].with = {"author", "comments"}
    /\ DOMAIN output.plan["user"].with = {"comments"}
    /\ output.plan["post"].with["comments"].where # NoFilter
    /\ output.plan["user"].with["comments"].where = NoFilter
    /\ output.plan["post"].with["comments"].columns
           # output.plan["user"].with["comments"].columns
    /\ output.plan["post"].with["author"].with = <<>>

Max(S) == CHOOSE m \in S : \A k \in S : k <= m

\* The number of relation levels of a with-object.
RECURSIVE PlanDepth(_)
PlanDepth(with) ==
    IF DOMAIN with = {} THEN 0
    ELSE 1 + Max({PlanDepth(with[rel].with) : rel \in DOMAIN with})

\* C17: the nested plan is never deeper than the configured maximum
\* relation depth; relations requested below the limit are left out.
C17_PlanWithinDepthLimit ==
    Planned => PlanDepth(output.plan) <= input.relationsDepthLimit

\* ------------------------------------------------------------------------
\* Properties of the build
\* ------------------------------------------------------------------------
Built == pc = "built"

TablesOf(tables) == {tables[i].name : i \in 1..Len(tables)}

MutationKinds == {"insertMany", "updateMany", "deleteMany"}

\* One entry of each of the kinds per table, and no other entry.
OnePerTable(entries, kinds, tables) ==
    /\ \A e \in entries : e.kind \in kinds /\ e.table \in TablesOf(tables)
    /\ \A t \in TablesOf(tables), k \in kinds :
          Cardinality({e \in entries : e.kind = k /\ e.table = t}) = 1

\* C18: with mutations disabled in the configuration a build result has no
\* Mutation type in its type definitions and no Mutation entry in its
\* resolver map; with the toggle absent or enabled both are present, with
\* one insert-many, one update-many and one delete-many field per table.
C18_MutationToggleHonoured ==
    (Built /\ ~Failed(output)) =>
        IF input.config.mutations = False
        THEN /\ "Mutation" \notin DOMAIN output.typeDefs
             /\ "Mutation" \notin DOMAIN output.resolvers
        ELSE /\ "Mutation" \in DOMAIN output.typeDefs
             /\ "Mutation" \in DOMAIN output.resolvers
             /\ OnePerTable(Range(output.typeDefs["Mutation"]), MutationKinds,
                            input.tables)

MutationsGenerated == input.config.mutations # False

\* The tables none of whose columns is declared as the primary key.
WithoutPrimaryKey(tables) ==
    {tables[i].name : i \in {j \in 1..Len(tables) :
        \A c \in 1..Len(tables[j].columns) : ~tables[j].columns[c].primary}}

\* C19: when mutation fields are generated, a schema with a table that has
\* no primary-key column makes the build fail with an error naming such a
\* table and produce no schema, so that a build that succeeds has a
\* primary-key column for every table; when mutations are not generated, a
\* missing primary key is not an error.
C19_MissingPrimaryKeyFatal ==
    Built =>
        IF MutationsGenerated
        THEN (WithoutPrimaryKey(input.tables) # {}) =>
                /\ Failed(output)
                /\ output.err.kind = "no_primary_key"
                /\ output.err.name \in WithoutPrimaryKey(input.tables)
                /\ output.typeDefs = <<>>
                /\ output.resolvers = <<>>
        ELSE ~Failed(output)

Names(declared) == {declared[i].name : i \in 1..Len(declared)}

\* C20: in a build result the root field names declared in the Query and
\* Mutation types are exactly the keys of resolvers.Query and
\* resolvers.Mutation: per table one find-many, one find-first, one
\* insert-many, one update-many and one delete-many.
C20_RootFieldsMatchResolvers ==
    (Built /\ ~Failed(output)) =>
        /\ Names(output.typeDefs["Query"]) = DOMAIN output.resolvers["Query"]
        /\ OnePerTable(Range(output.typeDefs["Query"]),
                       {"findMany", "findFirst"}, input.tables)
        /\ "Mutation" \in DOMAIN output.typeDefs
              <=> "Mutation" \in DOMAIN output.resolvers
        /\ "Mutation" \in DOMAIN output.typeDefs =>
              /\ Names(output.typeDefs["Mutation"])
                    = DOMAIN output.resolvers["Mutation"]
              /\ OnePerTable(Range(output.typeDefs["Mutation"]),
                             MutationKinds, input.tables)

\* At every level of the with-object: a child plan per requested field that
\* names a relation of the level's table and for no other field, each with
\* the requested columns of the relation's target table as projection and
\* with the relation field's own compiled arguments.
RECURSIVE ChildPlans(_, _, _)
ChildPlans(with, t, fields) ==
    /\ DOMAIN with = {f \in DOMAIN fields : f \in DOMAIN Relations(t)}
    /\ \A rel \in DOMAIN with :
          /\ with[rel].columns
                = DOMAIN fields[rel].fields
                    \cap DOMAIN Columns(Relations(t)[rel].targetTableName)
          /\ with[rel].where
                = buildWhereClause(Relations(t)[rel].targetTableName,
                                   fields[rel].args.where).sql
          /\ with[rel].orderBy
                = buildOrderByClause(Relations(t)[rel].targetTableName,
                                     fields[rel].args.orderBy)
          /\ with[rel].limit = fields[rel].args.limit
          /\ with[rel].offset = fields[rel].args.offset
          /\ ChildPlans(with[rel].with, Relations(t)[rel].targetTableName,
                      fields[rel].fields)

\* C26: at every level of the emitted plan the projection is exactly the
\* requested field names that are columns of the level's table, there is
\* one child plan per requested relation of that table, built from that
\* field's own sub-selection and arguments, and requested fields that are
\* neither column nor relation contribute nothing and raise no error.
C26_ProjectionAndChildPlans ==
    Planned =>
        /\ ~Failed(output)
        /\ output.columns = DOMAIN input.fields \cap DOMAIN Columns(input.t)
        /\ ChildPlans(output.plan, input.t, input.fields)

\* A request with a field that is no column and no relation at the root and
\* under a requested relation, itself with a relation below.
C26_Witness ==
    /\ Planned
    /\ "__typename" \in DOMAIN input.fields
    /\ output.columns # {}
    /\ \E rel \in DOMAIN output.plan :
          /\ "__typename" \in DOMAIN input.fields[rel].fields
          /\ output.plan[rel].columns # {}
          /\ output.plan[rel].where # NoFilter
          /\ output.plan[rel].with # <<>>

\* The relation nesting depth of a requested-field tree.
RECURSIVE RequestDepth(_)
RequestDepth(fields) ==
    LET nested == {f \in DOMAIN fields : DOMAIN fields[f].fields # {}}
    IN IF nested = {} THEN 0
       ELSE 1 + Max({RequestDepth(fields[f].fields) : f \in nested})

Walked == pc = "walked"

\* C27: on every finite requested-field tree, over a relation graph with
\* cycles, the planner's recursion ends, and the emitted plan, which is as
\* deep as the deepest call, is never deeper than the relation nesting of
\* the requested tree.
C27_PlannerTerminates ==
    /\ <>Walked
    /\ [](Walked =>
            /\ output.depth <= RequestDepth(input.fields)
            /\ output.depth
                  = PlanDepth(extractRelationsParams(input.t, input.fields).plan))

\* A walk over user, its posts and their author: the table recurs below
\* itself.
C27_Witness ==
    /\ Walked
    /\ input.t = "user"
    /\ "posts" \in DOMAIN input.fields
    /\ "author" \in DOMAIN input.fields["posts"].fields
    /\ output.depth = 2
    /\ output.calls >= 3

\* ------------------------------------------------------------------------
\* Further properties of the mutation resolvers
\* ------------------------------------------------------------------------
\* The update-many that has ended had a non-empty set payload and a filter
\* that compiles.
WellFormedUpdate ==
    /\ Finished({"updateMany"})
    /\ op.payload.present
    /\ DOMAIN op.payload.obj # {}
    /\ ~Failed(buildWhereClause(op.table, op.args.where))

\* The rows of the table, as the operation found it, that the operation's
\* filter matches.
MatchedBefore ==
    {r \in snapshot[op.table] :
        Matches(buildWhereClause(op.table, op.args.where).sql, r)}

\* C28: an update-many with a non-empty set payload and a well-formed
\* filter that matches no row ends without error and returns an empty list
\* of rows.
C28_UpdateOfNoRowReturnsEmpty ==
    (WellFormedUpdate /\ MatchedBefore = {}) =>
        /\ result.kind = "rows"
        /\ result.rows = <<>>

\* C29: when insert-many or update-many ends with an argument-validation
\* error (empty payload, OR next to a sibling key, empty list operand), in
\* a root argument or in an argument of a requested relation, and no other
\* writer acted, the tables are as the operation found them.
C29_ValidationErrorWritesNothing ==
    (/\ Finished({"insertMany", "updateMany"})
     /\ result.kind = "error"
     /\ result.err.kind \in ValidationKinds \cup {"no_values"}
     /\ ~interfered)
        => db = snapshot

\* The update-many, delete-many that has ended passed its validation and
\* its where argument compiled to no filter.
UnfilteredWrite ==
    /\ Finished({"updateMany", "deleteMany", "deleteManyResult"})
    /\ op.kind = "updateMany" => op.payload.present /\ DOMAIN op.payload.obj # {}
    /\ buildWhereClause(op.table, op.args.where) = Ok(NoFilter)

\* The store refused the write (an update that would leave two rows with
\* one key).
Refused == result.kind = "error" /\ result.err.kind = "storage"

Generated == pc = "generated"

\* C21: a column's where field names a filter input type whose eq, ne, lt,
\* lte, gt, gte, inArray and notInArray are declared with the column's own
\* base type, so that two columns share a filter type only when their base
\* types are equal.
C21_FilterOfOwnBaseType ==
    Generated =>
        \A t \in DOMAIN output.where : \A c \in DOMAIN output.where[t] :
            /\ output.where[t][c] \in DOMAIN output.filters
            /\ output.filters[output.where[t][c]] = output.update[t][c]

\* C22: the scalar and enum declarations of a build are those a first
\* build of the same schema gives, whatever builds came before it.
C22_DeclarationsOfThisBuildOnly ==
    Generated =>
        /\ output.scalars =
             generateTypeDefs(input.tables, input.relations, EmptyTracking).sdl.scalars
        /\ output.enums =
             generateTypeDefs(input.tables, input.relations, EmptyTracking).sdl.enums

\* A build that declares a scalar or an enum, after a build that declared
\* a name this one does not.
C22_Witness ==
    /\ Generated
    /\ Declared(output) # {}
    /\ input.before \ Declared(output) # {}

\* ------------------------------------------------------------------------
\* Properties of the export tool
\* ------------------------------------------------------------------------
Settled(id) == id \in DOMAIN promises /\ promises[id].state # "pending"

\* Every waitFor promise is settled at some time.
EveryWaitSettles ==
    \A id \in PromiseIds : (id \in DOMAIN promises) ~> Settled(id)

\* resolve or reject is called once at most on a promise, and a rejection
\* carries the timeout error of the promise's name.
SettlesOnce ==
    \A id \in DOMAIN promises :
        /\ promises[id].calls <= 1
        /\ promises[id].state = "rejected" =>
              promises[id].error = TimeoutError(promises[id].name)

\* A promise becomes resolved, in a step, with the value the store holds
\* for its name after the step.
ResolvesWithStoredValue ==
    \A id \in DOMAIN promises' :
        (/\ promises'[id].state = "resolved"
         /\ id \in DOMAIN promises => promises[id].state = "pending")
        => /\ promises'[id].name \in DOMAIN exportStore'.store
           /\ promises'[id].value = exportStore'.store[promises'[id].name]

\* C23: every waitFor(name) promise settles at some time, with the value
\* set for the name or with the timeout error of the name, whatever set
\* and clear calls come in between, and is settled once at most.
C23_EveryWaitForSettles ==
    /\ EveryWaitSettles
    /\ []SettlesOnce
    /\ [][ResolvesWithStoredValue]_vars

\* set(name, value) resolves every promise that waits for the name with
\* the value and leaves the name without a pending list.
SetResolvesWaiters(name, value) ==
    /\ \A id \in DOMAIN promises :
          promises[id].name = name /\ promises[id].state = "pending" =>
             /\ promises'[id].state = "resolved"
             /\ promises'[id].value = value
    /\ name \notin DOMAIN exportStore'.pending

\* waitFor(name) of a stored name gives a promise resolved with the stored
\* value; no callback is registered and no timer started.
WaitForStoredIsImmediate(name) ==
    /\ promises' = Append(promises,
                          Promise(name, "resolved", exportStore.store[name], FALSE, 1))
    /\ exportStore' = exportStore

\* C24: a set(name, v) step resolves every waitFor(name) pending at that
\* moment with v and empties the pending list of the name; a waitFor(name)
\* step while the name is stored resolves at once with the stored value,
\* null included, without a pending waiter or a timer.
C24_SetReachesEveryConsumer ==
    [][\A name \in ExportNames :
          /\ \A value \in ExportValues :
                StoreSet(name, value) => SetResolvesWaiters(name, value)
          /\ (StoreWaitFor(name) /\ name \in DOMAIN exportStore.store)
                => WaitForStoredIsImmediate(name)]_vars

\* passed is args with a value in the place of every export variable and
\* everything else as it was.
RECURSIVE Replaced(_, _)
Replaced(args, passed) ==
    IF isExportVariable(args) THEN passed.k = "value" /\ passed.v \in ExportValues
    ELSE IF args.k \in {"list", "object"}
    THEN /\ passed.k = args.k
         /\ Len(passed.xs) = Len(args.xs)
         /\ \A i \in 1..Len(args.xs) : Replaced(args.xs[i], passed.xs[i])
    ELSE passed = args

Ended == wrapped # <<>> /\ wrapped.stage \in {"invoked", "returned", "failed"}

\* The resolver proper is invoked with the arguments themselves when they
\* hold no export variable, and otherwise with every variable replaced; a
\* failed call has not invoked it and carries the error of the timeout.
InvokedAfterReplacement ==
    wrapped # <<>> =>
        /\ ~hasExportVariables(wrapped.args) =>
              /\ wrapped.stage \in {"invoked", "returned"}
              /\ wrapped.passed = wrapped.args
              /\ wrapped.waits = <<>>
        /\ wrapped.passed # NotPassed =>
              /\ wrapped.stage \in {"invoked", "returned"}
              /\ Replaced(wrapped.args, wrapped.passed)
              /\ ~hasExportVariables(wrapped.passed)
        /\ wrapped.stage = "failed" =>
              /\ wrapped.passed = NotPassed
              /\ \E name \in ExportNames :
                    wrapped.error = "Failed to resolve export variables: "
                                      \o TimeoutError(name)

\* C25: the wrapped resolver is invoked only with every export variable of
\* its arguments replaced by an exported value, arguments without export
\* variables pass unchanged and without waiting, and a call whose
\* variables are not exported in time ends failed with 'Failed to resolve
\* export variables', the resolver never invoked.
C25_ResolverAfterExports ==
    /\ []InvokedAfterReplacement
    /\ (wrapped # <<>>) ~> Ended
    /\ [][wrapped # <<>> /\ wrapped.stage = "failed" => wrapped' = wrapped]_vars
====
